---- MODULE Spec2Model ----
(***************************************************************************)
(* State-machine model of ovos-media-plugin-spotify:                       *)
(*   - SpotifydHooks, the spotifyd event bridge (spotifyd.py)              *)
(*   - SpotifyClient, device cache and device resolution (spotify_client)  *)
(*   - the backend plugins (audio.py, __init__.py of both packages)        *)
(* Time is time.time() in whole seconds; positions are milliseconds.       *)
(* Python's None is the string "None"; an optional list is <<>> for None   *)
(* and <<list>> for a value.                                               *)
(***************************************************************************)
EXTENDS Integers, Sequences, FiniteSets, TLC

\* ---------------------------------------------------------------- bounds
MaxEvents == 3       \* spotifyd events delivered to an observed bridge
MaxTime == 3         \* last second of the bridge clock
MaxDevices == 2      \* devices in one answer of the Web API
MaxClientTime == 63  \* last second of the device-cache clock
MaxPlaylists == 2    \* playlists in one answer of the Web API
MaxPlaylistTime == 303  \* last second of the playlist-cache clock
MaxTicks == 2        \* steps of the plugin clock

\* ---------------------------------------------------------------- values
None == "None"
TrackIds == {"t1", "t2"}
Positions == {0, 1000}
Durations == {2000}

Min(a, b) == IF a < b THEN a ELSE b
Max(a, b) == IF a > b THEN a ELSE b

\* F applied to the value of v, v evaluated once (a local variable of the code)
With(v, F(_)) == CHOOSE y \in {F(x) : x \in {v}} : TRUE

\* Python truthiness of an optional string
Truthy(s) == s # None /\ s # ""

TrackUri(track_id) == "spotify:track:" \o track_id

VARIABLES
    now,      \* time.time()
    hooks,    \* SpotifydHooks: current_uri, last_sync_ts, track_len, track_pos
    plugin,   \* backend plugin: gen, paused, last_sync_ts, now_playing
    client,   \* SpotifyClient: gen, spotify, device_list, devices_fetched, ...
    play,     \* the play call: pc, slept, ticks, steps, cause
    last,     \* what the last handler did: op and what it read and produced
    bus,      \* observed bridge: every outbound bus message so far
    cb,       \* observed bridge: every callback the bridge invoked so far
    events    \* observed bridge: every spotifyd event delivered so far

vars == <<now, hooks, plugin, client, play, last, bus, cb, events>>

\* ------------------------------------------------- SpotifydHooks (bridge)
HooksInit ==
    [current_uri |-> None, last_sync_ts |-> 0, track_len |-> 0, track_pos |-> 0]

reset_metadata(h) ==
    [h EXCEPT !.current_uri = None, !.last_sync_ts = 0,
              !.track_len = 0, !.track_pos = 0]

preload_uri(h, uri, t) ==
    [reset_metadata(h) EXCEPT !.current_uri = uri, !.last_sync_ts = t]

\* pos = self._track_pos or 0; plus the time elapsed since the last sync
ExtrapolatedPos(h, t) ==
    h.track_pos + (IF h.last_sync_ts # 0 THEN (t - h.last_sync_ts) * 1000 ELSE 0)

\* get_track_position without the clamp to the track length
get_track_position_unclamped(h, t) ==
    LET pos == ExtrapolatedPos(h, t)
        len == IF h.track_len = 0 THEN pos ELSE h.track_len
    IN  [value |-> pos, hooks |-> [h EXCEPT !.track_len = len]]

\* returns the value and the bridge after the call (the call may set track_len)
get_track_position(h, t) ==
    LET pos == ExtrapolatedPos(h, t)
        len == IF h.track_len = 0 THEN pos ELSE h.track_len
    IN  [value |-> Min(pos, len), hooks |-> [h EXCEPT !.track_len = len]]

get_track_length(h, t) ==
    IF h.track_len # 0 THEN [value |-> h.track_len, hooks |-> h]
    ELSE get_track_position(h, t)

\* the same two queries of SpotifyOCPAudioService, which keeps the sync
\* timestamp, the length and the position in the plugin itself
ocp_get_track_position(p, t) ==
    LET pos == ExtrapolatedPos(p, t)
        len == IF p.track_len = 0 THEN pos ELSE p.track_len
    IN  [value |-> Min(pos, len), plugin |-> [p EXCEPT !.track_len = len]]

ocp_get_track_length(p, t) ==
    IF p.track_len # 0 THEN [value |-> p.track_len, plugin |-> p]
    ELSE ocp_get_track_position(p, t)

Msg(type, state) == [type |-> type, state |-> state]
PlayerState(s) == Msg("ovos.common_play.player.state", s)
MediaState(s) == Msg("ovos.common_play.media.state", s)

\* ------------------------------------- SpotifyAudioService (audio.py) callbacks
\* gen: "legacy" is ovos_audio_plugin_spotify.SpotifyAudioService, "ocp" is
\* ovos_media_plugin_spotify.SpotifyOCPAudioService, "audio" is
\* ovos_media_plugin_spotify.audio.SpotifyAudioService; device_name is the
\* configured identifier, for the legacy plugin the device_name of its
\* client, which is None until maybe_launch_librespot sets it
PluginInit(gen) ==
    [gen |-> gen, paused |-> FALSE, last_sync_ts |-> 0, now_playing |-> None,
     device_name |-> IF gen = "legacy" THEN None ELSE "Kitchen",
     track_len |-> 0, track_pos |-> 0]

\* the play call of the plugin: where it stands, whether its sleep is over,
\* how often time advanced, the statements of play() it has run, what last
\* reset the sync timestamp since its track start ("none": nothing did), and
\* when its play command was sent (0: not yet)
PlayInit ==
    [pc |-> "idle", slept |-> FALSE, ticks |-> 0, steps |-> <<>>,
     cause |-> "none", issued |-> 0]

\* a world is the bridge and the plugin that owns it, with what a handler
\* emitted: bus messages, bridge callbacks, host callbacks
World(h, p) == [hooks |-> h, plugin |-> p, bus |-> <<>>, cb |-> <<>>, host |-> <<>>]

on_track_start(w, uri, t) ==
    LET np == IF Truthy(uri) THEN uri ELSE w.plugin.now_playing
    IN  [w EXCEPT !.plugin.now_playing = np,
                  !.plugin.last_sync_ts = t,
                  !.host = IF Truthy(np) THEN Append(@, np) ELSE @]

on_track_end(w, uri) ==
    [w EXCEPT !.hooks = IF Truthy(uri) THEN @ ELSE reset_metadata(@),
              !.plugin.paused = FALSE,
              !.plugin.last_sync_ts = 0,
              !.host = Append(@, None)]

\* on_track_error without the reset of the bridge
on_track_error_no_reset(w, uri) ==
    [w EXCEPT !.plugin.paused = FALSE,
              !.plugin.last_sync_ts = 0]

on_track_error(w, uri) ==
    [w EXCEPT !.hooks = IF Truthy(uri) THEN @ ELSE reset_metadata(@),
              !.plugin.paused = FALSE,
              !.plugin.last_sync_ts = 0]

\* --------------------------------------------------- spotifyd event handlers
on_spotify_start(w, track_id, position, t) ==
    [w EXCEPT !.hooks.last_sync_ts = t,
              !.hooks.current_uri = TrackUri(track_id),
              !.hooks.track_pos = position,
              !.bus = Append(@, MediaState(2))]

on_spotify_play(w, track_id, duration, position, t) ==
    LET w1 == [w EXCEPT !.hooks.last_sync_ts = t,
                        !.hooks.current_uri = TrackUri(track_id),
                        !.hooks.track_len = duration,
                        !.hooks.track_pos = position,
                        !.bus = @ \o <<PlayerState(1), MediaState(6)>>,
                        !.cb = Append(@, [cb |-> "track_start",
                                          uri |-> TrackUri(track_id)])]
    IN  on_track_start(w1, w1.hooks.current_uri, t)

on_spotify_stop(w) ==
    [w EXCEPT !.hooks.current_uri = None,
              !.hooks.track_len = 0,
              !.hooks.track_pos = 0,
              !.hooks.last_sync_ts = 0,
              !.bus = @ \o <<MediaState(1), PlayerState(0)>>]

\* on_spotify_pause without self._last_sync_ts = 0
on_spotify_pause_synced(w, track_id, duration, position) ==
    [w EXCEPT !.hooks.current_uri = TrackUri(track_id),
              !.hooks.track_len = duration,
              !.hooks.track_pos = position,
              !.bus = Append(@, PlayerState(2))]

on_spotify_pause(w, track_id, duration, position) ==
    [w EXCEPT !.hooks.current_uri = TrackUri(track_id),
              !.hooks.track_len = duration,
              !.hooks.track_pos = position,
              !.hooks.last_sync_ts = 0,
              !.bus = Append(@, PlayerState(2))]

\* on_spotify_load forwarding a media state as on_spotify_start does
on_spotify_load_forwarding(w, track_id, position, t) ==
    [w EXCEPT !.hooks.last_sync_ts = t,
              !.hooks.track_pos = position,
              !.hooks.current_uri = TrackUri(track_id),
              !.bus = Append(@, MediaState(2))]

on_spotify_load(w, track_id, position, t) ==
    [w EXCEPT !.hooks.last_sync_ts = t,
              !.hooks.track_pos = position,
              !.hooks.current_uri = TrackUri(track_id)]

on_spotify_preloading(w) == w

\* on_spotify_end without the track-end callback
on_spotify_end_no_callback(w) ==
    [w EXCEPT !.hooks.track_pos = w.hooks.track_len,
              !.bus = @ \o <<PlayerState(2), MediaState(7)>>]

on_spotify_end(w) ==
    LET w1 == [w EXCEPT !.hooks.track_pos = w.hooks.track_len,
                        !.bus = @ \o <<PlayerState(2), MediaState(7)>>,
                        !.cb = Append(@, [cb |-> "track_end",
                                          uri |-> w.hooks.current_uri])]
    IN  on_track_end(w1, w.hooks.current_uri)

on_spotify_change(w, track_id, t) ==
    [w EXCEPT !.hooks.current_uri = TrackUri(track_id),
              !.hooks.last_sync_ts = t,
              !.bus = @ \o <<PlayerState(2), MediaState(2)>>]

\* ------------------------------------------------------------ SpotifyClient
\* str.lower() on the strings handed to it: the names and types of devices,
\* the names of playlists, the device identifiers of callers; the ones not
\* listed hold no upper-case letter
Lower(s) ==
    CASE s = "Kitchen" -> "kitchen"
      [] s = "Attic" -> "attic"
      [] s = "Office" -> "office"
      [] s = "OFFICE" -> "office"
      [] s = "Speaker" -> "speaker"
      [] s = "Computer" -> "computer"
      [] s = "A" -> "a"
      [] s = "Chill" -> "chill"
      [] s = "CHILL" -> "chill"
      [] s = "Rock" -> "rock"
      [] OTHER -> s

\* "ovos" in name
ContainsOvos(name) == name \in {"ovos-1", "ovos-uuid"}

Dev(id, name, type, is_active) ==
    [id |-> id, name |-> name, type |-> type, is_active |-> is_active]

\* the Spotify Connect devices an account may show
DevicePool ==
    { Dev("a", "Kitchen", "Speaker", FALSE),
      Dev("b", "Office", "Computer", TRUE),
      Dev("c", "A", "Speaker", FALSE),
      Dev("d", "speaker", "Computer", FALSE) }

Injective(q) == \A i, j \in 1..Len(q) : q[i] = q[j] => i = j

DeviceLists ==
    UNION { { q \in [1..n -> DevicePool] : Injective(q) } : n \in 0..MaxDevices }

\* what GET /me/player/devices answers: a device list, or an HTTP failure
DeviceResponses ==
    { [ok |-> TRUE, devices |-> q] : q \in DeviceLists }
        \cup { [ok |-> FALSE, devices |-> <<>>] }

\* identifiers handed to the transport operations
Identifiers ==
    { None, "a", "A", "office", "OFFICE", "speaker", "zzz" }

DevicesTTL == 60

\* the Web API call behind SpotifyConnect.get_devices
GetDevices == [call |-> "devices", device |-> None, arg |-> None]

PlaylistsTTL == 300

\* the playlists an account may own
PlaylistPool ==
    { [name |-> "Chill", id |-> "p1"],
      [name |-> "CHILL", id |-> "p2"],
      [name |-> "Rock", id |-> "p3"] }

PlaylistLists ==
    UNION { { q \in [1..n -> PlaylistPool] : Injective(q) } : n \in 0..MaxPlaylists }

\* what GET /me/playlists answers: the items, or an HTTP failure
PlaylistResponses ==
    { [ok |-> TRUE, items |-> q] : q \in PlaylistLists }
        \cup { [ok |-> FALSE, items |-> <<>>] }

CurrentUserPlaylists == [call |-> "current_user_playlists", device |-> None, arg |-> None]

ClientInit(gen) ==
    [gen |-> gen, spotify |-> FALSE, device_list |-> <<>>, devices_fetched |-> 0,
     playlists |-> <<>>, playlists_fetched |-> 0]

\* the result of a client call: the client after it, the value returned, the
\* Web API calls made, the exception raised ("none" when it returned)
Result(c, value, api, exc) ==
    [client |-> c, value |-> value, api |-> api, exc |-> exc]

\* what the token broker does when a client connects: it hands out a token;
\* it gives none, so that the fetch ends with an HTTPError or a
\* SpotifyNotAuthorizedError; or it cannot be reached, and the fetch ends with
\* a ConnectionError
Brokered == {"token", "no token", "ConnectionError"}

\* the client after the property spotify was read, and the exception raised
Loaded(c, exc) == [client |-> c, exc |-> exc]

\* property spotify: load_credentials on first use. Its except clause takes
\* HTTPError and SpotifyNotAuthorizedError, logs and leaves self._spotify
\* None; any other exception of the fetch leaves the property
load_credentials(c, creds) ==
    IF c.spotify THEN Loaded(c, "none")
    ELSE IF creds = "token" THEN Loaded([c EXCEPT !.spotify = TRUE], "none")
    ELSE IF creds = "no token" THEN Loaded(c, "none")
    ELSE Loaded(c, creds)

\* not self.__device_list
NoDeviceList(c) == c.device_list = <<>> \/ c.device_list[1] = <<>>

CacheStale(c, t) == NoDeviceList(c) \/ t - c.devices_fetched > DevicesTTL

\* property devices
devices(c, t, creds, resp) ==
    LET c1 == load_credentials(c, creds).client
    IN  IF load_credentials(c, creds).exc # "none"
        THEN Result(c1, <<>>, <<>>, load_credentials(c, creds).exc)
        ELSE IF ~c1.spotify THEN Result(c1, <<>>, <<>>, "none")
        ELSE IF CacheStale(c1, t)
        THEN IF resp.ok
             THEN Result([c1 EXCEPT !.device_list = <<resp.devices>>,
                                    !.devices_fetched = t],
                         resp.devices, <<GetDevices>>, "none")
             ELSE Result(c1, <<>>, <<GetDevices>>, "HTTPError")
        ELSE Result(c1, c1.device_list[1], <<>>, "none")

\* the dict built by: for p in playlists: self._playlists[p['name'].lower()] = p
PlaylistDict(items) ==
    [k \in {Lower(items[i].name) : i \in 1..Len(items)} |->
        items[CHOOSE i \in 1..Len(items) :
                 /\ Lower(items[i].name) = k
                 /\ \A j \in (i + 1)..Len(items) : Lower(items[j].name) # k]]

\* not self._playlists
NoPlaylists(c) == c.playlists = <<>> \/ DOMAIN c.playlists[1] = {}

PlaylistsStale(c, t) == NoPlaylists(c) \/ t - c.playlists_fetched > PlaylistsTTL

\* property playlists (legacy client)
playlists(c, t, creds, resp) ==
    LET c1 == load_credentials(c, creds).client
    IN  IF load_credentials(c, creds).exc # "none"
        THEN Result(c1, <<>>, <<>>, load_credentials(c, creds).exc)
        ELSE IF ~c1.spotify THEN Result(c1, <<>>, <<>>, "none")
        ELSE IF PlaylistsStale(c1, t)
        THEN IF resp.ok
             THEN Result([c1 EXCEPT !.playlists = <<PlaylistDict(resp.items)>>,
                                    !.playlists_fetched = t],
                         PlaylistDict(resp.items), <<CurrentUserPlaylists>>, "none")
             ELSE Result([c1 EXCEPT !.playlists = <<PlaylistDict(<<>>)>>],
                         <<>>, <<CurrentUserPlaylists>>, "HTTPError")
        ELSE Result(c1, c1.playlists[1], <<>>, "none")

\* one more read of self.devices after the calls of r
ReadDevices(r, t, creds, resp) ==
    With(devices(r.client, t, creds, resp), LAMBDA d :
        Result(d.client, d.value, r.api \o d.api, d.exc))

HasId(devs, x) == \E i \in 1..Len(devs) : devs[i].id = x
HasName(devs, x) == \E i \in 1..Len(devs) : Lower(devs[i].name) = Lower(x)
HasType(devs, x) == \E i \in 1..Len(devs) : Lower(devs[i].type) = Lower(x)
FirstByName(devs, x) ==
    devs[CHOOSE i \in 1..Len(devs) :
            /\ Lower(devs[i].name) = Lower(x)
            /\ \A j \in 1..(i - 1) : Lower(devs[j].name) # Lower(x)].id
FirstByType(devs, x) ==
    devs[CHOOSE i \in 1..Len(devs) :
            /\ Lower(devs[i].type) = Lower(x)
            /\ \A j \in 1..(i - 1) : Lower(devs[j].type) # Lower(x)].id

\* the three loops of validate_device_id with the type loop before the name loop
resolve_type_first(devs, dev_id) ==
    IF HasId(devs, dev_id) THEN dev_id
    ELSE IF HasType(devs, dev_id) THEN FirstByType(devs, dev_id)
    ELSE IF HasName(devs, dev_id) THEN FirstByName(devs, dev_id)
    ELSE dev_id

\* the three loops of validate_device_id over one device list, dev_id a string
resolve(devs, dev_id) ==
    IF HasId(devs, dev_id) THEN dev_id
    ELSE IF HasName(devs, dev_id) THEN FirstByName(devs, dev_id)
    ELSE IF HasType(devs, dev_id) THEN FirstByType(devs, dev_id)
    ELSE dev_id

\* property active_device_id (legacy)
active_device_id(devs) ==
    IF \E i \in 1..Len(devs) : devs[i].is_active
    THEN devs[CHOOSE i \in 1..Len(devs) :
                 /\ devs[i].is_active
                 /\ \A j \in 1..(i - 1) : ~devs[j].is_active].id
    ELSE None

\* default_device_id taking the first device whatever is active or named ovos
default_device_id_first(devs) ==
    IF Len(devs) = 0 THEN None ELSE devs[1].id

\* property default_device_id (legacy) over one device list
default_device_id(devs) ==
    IF Len(devs) = 0 THEN None
    ELSE IF active_device_id(devs) # None THEN active_device_id(devs)
    ELSE IF \E i \in 1..Len(devs) : ContainsOvos(devs[i].name)
    THEN devs[CHOOSE i \in 1..Len(devs) :
                 /\ ContainsOvos(devs[i].name)
                 /\ \A j \in 1..(i - 1) : ~ContainsOvos(devs[j].name)].id
    ELSE devs[1].id

\* validate_device_id: the device list is read once per loop; the value is
\* the resolved id, and devs the device list the loops ran over
Resolved(r, value, exc) ==
    [client |-> r.client, value |-> value, api |-> r.api, exc |-> exc,
     devs |-> r.value]

\* the type loop and the test for None that ends validate_device_id
validate_by_type(r2, dev_id, t, creds, resp) ==
    With(ReadDevices(r2, t, creds, resp), LAMBDA r3 :
        IF r3.exc # "none" THEN Resolved(r3, None, r3.exc)
        ELSE IF dev_id = None /\ Len(r3.value) > 0
        THEN Resolved(r3, None, "AttributeError")
        ELSE IF dev_id = None THEN Resolved(r3, None, "NoSpotifyDevicesError")
        ELSE Resolved(r3, resolve(r3.value, dev_id), "none"))

\* the name loop of validate_device_id, and what follows it
validate_by_name(r1, dev_id, t, creds, resp) ==
    With(ReadDevices(r1, t, creds, resp), LAMBDA r2 :
        IF r2.exc # "none" THEN Resolved(r2, None, r2.exc)
        ELSE IF dev_id = None /\ Len(r2.value) > 0
        THEN Resolved(r2, None, "AttributeError")
        ELSE IF dev_id # None /\ HasName(r2.value, dev_id)
        THEN Resolved(r2, resolve(r2.value, dev_id), "none")
        ELSE validate_by_type(r2, dev_id, t, creds, resp))

validate_device_id(c, dev_id, t, creds, resp) ==
    With(ReadDevices(Result(c, <<>>, <<>>, "none"), t, creds, resp), LAMBDA r1 :
        IF r1.exc # "none" THEN Resolved(r1, None, r1.exc)
        ELSE IF dev_id = None /\ c.gen = "legacy"
        THEN IF default_device_id(r1.value) = None
             THEN Resolved(r1, None, "NoSpotifyDevicesError")
             ELSE Resolved(r1, default_device_id(r1.value), "none")
        ELSE IF HasId(r1.value, dev_id) THEN Resolved(r1, dev_id, "none")
        ELSE validate_by_name(r1, dev_id, t, creds, resp))

\* pause, resume, next, previous, volume of SpotifyClient: resolve the device,
\* then one Web API call, which succeeds when ok
Transported(v, exc, requests) ==
    [client |-> v.client, api |-> v.api \o requests, exc |-> exc,
     devs |-> v.devs, resolved |-> v.value, resolve_exc |-> v.exc]

transport(c, call, dev_id, arg, t, creds, resp, ok) ==
    With(validate_device_id(c, dev_id, t, creds, resp), LAMBDA v :
        IF v.exc # "none" THEN Transported(v, v.exc, <<>>)
        ELSE IF ~v.client.spotify THEN Transported(v, "AttributeError", <<>>)
        ELSE Transported(v, IF ok THEN "none" ELSE "HTTPError",
                         <<[call |-> call, device |-> v.value, arg |-> arg]>>))

\* ---------------------------------------------- SpotifyClient.is_playing, play
LegacyDefaultVolume == 100
NewerDefaultVolume == 90
DEFAULT_VOLUME(c) ==
    IF c.gen = "legacy" THEN LegacyDefaultVolume ELSE NewerDefaultVolume

CurrentlyPlaying ==
    [call |-> "current_user_playing_track", device |-> None, arg |-> None]

\* what the account answers to a status request
Statuses == {"playing", "idle", "fail"}

\* SpotifyClient.is_playing over SpotifyConnect.is_playing: the status request,
\* then a fresh device list searched by id; any exception counts as not
\* playing, and so does the answer None of a device that is not in the list.
\* status "fail" is a status request that raises or answers without content.
\* "if self.spotify:" stands outside that try: an exception of the property
\* leaves is_playing
is_playing(c, device, creds, status, resp) ==
    LET c1 == load_credentials(c, creds).client
    IN  IF load_credentials(c, creds).exc # "none"
        THEN Result(c1, FALSE, <<>>, load_credentials(c, creds).exc)
        ELSE IF ~c1.spotify THEN Result(c1, FALSE, <<>>, "none")
        ELSE IF status = "fail"
        THEN Result(c1, FALSE, <<CurrentlyPlaying>>, "none")
        ELSE IF status # "playing" \/ device = None
        THEN Result(c1, status = "playing", <<CurrentlyPlaying>>, "none")
        ELSE IF ~resp.ok
        THEN Result(c1, FALSE, <<CurrentlyPlaying, GetDevices>>, "none")
        ELSE Result(c1,
                    \E i \in 1..Len(resp.devices) :
                        /\ resp.devices[i].id = device
                        /\ \A j \in 1..(i - 1) : resp.devices[j].id # device
                        /\ resp.devices[i].is_active,
                    <<CurrentlyPlaying, GetDevices>>, "none")

\* what the Web API answers to a play command
PlayOutcomes == {"ok", "403", "error"}

\* SpotifyClient.play of a list of track URIs on a device
client_play(c, uris, dev_id, t, creds, resp, outcome) ==
    With(validate_device_id(c, dev_id, t, creds, resp), LAMBDA v :
        IF v.exc # "none" THEN Result(v.client, None, v.api, v.exc)
        ELSE IF \E i \in 1..Len(uris) : uris[i] = None
        THEN Result(v.client, None, v.api, "AttributeError")
        ELSE IF ~v.client.spotify
        THEN Result(v.client, None, v.api, "AttributeError")
        ELSE Result(v.client, None,
                    v.api \o <<[call |-> "start_playback", device |-> v.value,
                                arg |-> uris]>>,
                    IF outcome = "error" THEN "SpotifyNotAuthorizedError"
                    ELSE "none"))

\* ------------------------------------------------------- the backend plugins
\* a handler's state: the plugin, its client and bridge, the Web API calls and
\* host callbacks it made, the exception it raised, the value of its last call
St(p, c, h) ==
    [plugin |-> p, client |-> c, hooks |-> h, bus |-> <<>>, cb |-> <<>>,
     host |-> <<>>, api |-> <<>>, exc |-> "none", ret |-> None]

Raised(st) == st.exc # "none"

\* a transport call of the client made by a plugin handler
client_call(st, call, dev_id, arg, t, inp) ==
    With(transport(st.client, call, dev_id, arg, t,
                   inp.creds, inp.resp, inp.ok), LAMBDA r :
        [st EXCEPT !.client = r.client, !.api = @ \o r.api, !.exc = r.exc])

client_is_playing(st, dev, inp) ==
    With(is_playing(st.client, dev, inp.creds, inp.status, inp.resp), LAMBDA r :
        [st EXCEPT !.client = r.client, !.api = @ \o r.api, !.ret = r.value,
                   !.exc = r.exc])

\* the id of the first device of that name, None when there is none
NameToId(devs, name) ==
    IF \E i \in 1..Len(devs) : devs[i].name = name
    THEN devs[CHOOSE i \in 1..Len(devs) :
                 /\ devs[i].name = name
                 /\ \A j \in 1..(i - 1) : devs[j].name # name].id
    ELSE None

\* the device a handler names: the legacy plugin reads the client's
\* device_name, the OCP plugin looks the configured name up in the cached
\* device list, audio.py passes the configured name itself
device(st, t, inp) ==
    CASE st.plugin.gen = "legacy" -> [st EXCEPT !.ret = st.plugin.device_name]
      [] st.plugin.gen = "audio" -> [st EXCEPT !.ret = st.plugin.device_name]
      [] st.plugin.gen = "ocp" ->
            With(devices(st.client, t, inp.creds, inp.resp), LAMBDA d :
                [st EXCEPT !.client = d.client, !.api = @ \o d.api,
                           !.exc = d.exc,
                           !.ret = IF d.exc = "none"
                                   THEN NameToId(d.value, st.plugin.device_name)
                                   ELSE None])

\* maybe_launch_librespot(device_name) of the legacy plugin:
\* self.spotify.device_name = f"ovos-{DeviceApi().identity.uuid}", whatever
\* name it is handed
maybe_launch_librespot(p) == [p EXCEPT !.device_name = "ovos-uuid"]

\* on_track_start() of the plugin
plugin_on_track_start(st, t) ==
    IF st.plugin.gen = "audio" THEN on_track_start(st, "", t)
    ELSE [st EXCEPT !.plugin.last_sync_ts = t,
                    !.host = Append(@, st.plugin.now_playing)]

\* on_track_end() of the plugin
plugin_on_track_end(st) ==
    IF st.plugin.gen = "audio" THEN on_track_end(st, "")
    ELSE [st EXCEPT !.plugin.paused = FALSE,
                    !.plugin.last_sync_ts = 0,
                    !.host = Append(@, None)]

\* on_track_error() of the plugin
plugin_on_track_error(st) ==
    IF st.plugin.gen = "audio" THEN on_track_error(st, "")
    ELSE [st EXCEPT !.plugin.paused = FALSE,
                    !.plugin.last_sync_ts = 0,
                    !.host = Append(@, "ocp_error")]

\* stop without the test of the plugin-paused flag that audio.py makes
stop_without_guard(st, t, inp) ==
    With(device(st, t, inp), LAMBDA s1 :
        IF Raised(s1) THEN s1
        ELSE With(client_call(s1, "pause_playback", s1.ret, None, t, inp),
                  LAMBDA s2 :
                    IF Raised(s2) \/ st.plugin.gen = "legacy" THEN s2
                    ELSE plugin_on_track_end(s2)))

\* stop: the pause call, then the track-end transition; the legacy plugin
\* only pauses, audio.py does nothing when the plugin-paused flag is set
stop(st, t, inp) ==
    IF st.plugin.gen = "audio" /\ st.plugin.paused THEN st
    ELSE With(device(st, t, inp), LAMBDA s1 :
        IF Raised(s1) THEN s1
        ELSE With(client_call(s1, "pause_playback", s1.ret, None, t, inp),
                  LAMBDA s2 :
                    IF Raised(s2) \/ st.plugin.gen = "legacy" THEN s2
                    ELSE plugin_on_track_end(s2)))

\* the pause call of pause(), made once is_playing has answered true
pause_call(s2, t, inp) ==
    With(device([s2 EXCEPT !.plugin.paused = TRUE], t, inp), LAMBDA s3 :
        IF Raised(s3) THEN s3
        ELSE client_call(s3, "pause_playback", s3.ret, None, t, inp))

pause(st, t, inp) ==
    With(device(st, t, inp), LAMBDA s1 :
        IF Raised(s1) THEN s1
        ELSE With(client_is_playing(s1, s1.ret, inp), LAMBDA s2 :
                    IF ~s2.ret THEN s2 ELSE pause_call(s2, t, inp)))

resume(st, t, inp) ==
    IF ~st.plugin.paused THEN st
    ELSE With(device([st EXCEPT !.plugin.paused = FALSE], t, inp), LAMBDA s1 :
        IF Raised(s1) THEN s1
        ELSE client_call(s1, "start_playback", s1.ret, None, t, inp))

\* lower_volume and restore_volume: is_playing, then volume without a device
set_volume(st, volume, t, inp) ==
    With(device(st, t, inp), LAMBDA s1 :
        IF Raised(s1) THEN s1
        ELSE With(client_is_playing(s1, s1.ret, inp), LAMBDA s2 :
                    IF ~s2.ret THEN s2
                    ELSE client_call(s2, "volume", None, volume, t, inp)))

lower_volume(st, t, inp) ==
    set_volume(st, DEFAULT_VOLUME(st.client) \div 3, t, inp)

restore_volume(st, t, inp) ==
    set_volume(st, DEFAULT_VOLUME(st.client), t, inp)

\* the play command of play(): spotify.play([now_playing], dev_id=...)
play_command(st, t, inp) ==
    With(device(st, t, inp), LAMBDA s1 :
        IF Raised(s1) THEN s1
        ELSE With(client_play(s1.client, <<st.plugin.now_playing>>, s1.ret, t,
                              inp.creds, inp.resp, inp.play), LAMBDA r :
                    [s1 EXCEPT !.client = r.client, !.api = @ \o r.api,
                               !.exc = r.exc]))

\* while self._last_sync_ts > 0, with the test turned round
StillWaiting_inverted(p) == p.last_sync_ts <= 0

\* while self._last_sync_ts > 0
StillWaiting(p) == p.last_sync_ts > 0

\* the device of the configured name is in the list and not active
TargetInactive(devs, name) ==
    \E i \in 1..Len(devs) : devs[i].name = name /\ ~devs[i].is_active

\* one round of the wait loop after its sleep: read the device list, end the
\* track when the target is found inactive; ret says whether the loop returned
wait_poll(st, t, inp) ==
    With(devices(st.client, t, inp.creds, inp.resp), LAMBDA d :
        With([st EXCEPT !.client = d.client, !.api = @ \o d.api,
                        !.exc = d.exc, !.ret = FALSE], LAMBDA s1 :
            IF Raised(s1) THEN s1
            ELSE IF TargetInactive(d.value, st.plugin.device_name)
            THEN [plugin_on_track_end(s1) EXCEPT !.ret = TRUE]
            ELSE s1))

\* ------------------------------------------------------------------ actions
\* the record kept of the last handler run
Last(op, ret, w) ==
    [op |-> op, ret |-> ret, pre |-> hooks, t |-> now,
     bus |-> w.bus, cb |-> w.cb, host |-> w.host]

\* a handler run on a bridge whose whole output is observed
Observed(name, track_id, w) ==
    /\ Len(events) < MaxEvents
    /\ hooks' = w.hooks
    /\ plugin' = w.plugin
    /\ bus' = bus \o w.bus
    /\ cb' = cb \o w.cb
    /\ events' = Append(events, [name |-> name, track_id |-> track_id])
    /\ last' = Last(name, None, w)
    /\ UNCHANGED <<now, client, play>>

\* a handler run of which only the last output is kept
Handled(name, ret, w) ==
    /\ hooks' = w.hooks
    /\ plugin' = w.plugin
    /\ last' = Last(name, ret, w)
    /\ UNCHANGED <<now, client, play, bus, cb, events>>

W == World(hooks, plugin)

EvStart ==
    \E tid \in TrackIds, pos \in Positions :
        Observed("start", tid, on_spotify_start(W, tid, pos, now))
EvPlay ==
    \E tid \in TrackIds, dur \in Durations, pos \in Positions :
        Observed("play", tid, on_spotify_play(W, tid, dur, pos, now))
EvStop == Observed("stop", None, on_spotify_stop(W))
EvPause ==
    \E tid \in TrackIds, dur \in Durations, pos \in Positions :
        Observed("pause", tid, on_spotify_pause(W, tid, dur, pos))
EvLoad ==
    \E tid \in TrackIds, pos \in Positions :
        Observed("load", tid, on_spotify_load(W, tid, pos, now))
EvPreloading == Observed("preloading", None, on_spotify_preloading(W))
EvEnd == Observed("end_of_track", None, on_spotify_end(W))
EvChange ==
    \E tid \in TrackIds :
        Observed("change", tid, on_spotify_change(W, tid, now))

HookStart ==
    \E tid \in TrackIds, pos \in Positions :
        Handled("start", None, on_spotify_start(W, tid, pos, now))
HookPlay ==
    \E tid \in TrackIds, dur \in Durations, pos \in Positions :
        Handled("play", None, on_spotify_play(W, tid, dur, pos, now))
HookStop == Handled("stop", None, on_spotify_stop(W))
HookPause ==
    \E tid \in TrackIds, dur \in Durations, pos \in Positions :
        Handled("pause", None, on_spotify_pause(W, tid, dur, pos))
HookLoad ==
    \E tid \in TrackIds, pos \in Positions :
        Handled("load", None, on_spotify_load(W, tid, pos, now))
HookPreloading == Handled("preloading", None, on_spotify_preloading(W))
HookEnd == Handled("end_of_track", None, on_spotify_end(W))
HookChange ==
    \E tid \in TrackIds :
        Handled("change", None, on_spotify_change(W, tid, now))

Preload ==
    \E tid \in TrackIds :
        Handled("preload_uri", None,
                [W EXCEPT !.hooks = preload_uri(hooks, TrackUri(tid), now)])
ResetMetadata ==
    Handled("reset_metadata", None, [W EXCEPT !.hooks = reset_metadata(hooks)])
\* the position and length queries of the plugin: the OCP plugin answers from
\* its own fields, the plugin of audio.py hands the query to its bridge
GetTrackPosition ==
    IF plugin.gen = "ocp"
    THEN \E r \in {ocp_get_track_position(plugin, now)} :
            Handled("get_track_position", r.value, [W EXCEPT !.plugin = r.plugin])
    ELSE \E r \in {get_track_position(hooks, now)} :
            Handled("get_track_position", r.value, [W EXCEPT !.hooks = r.hooks])
GetTrackLength ==
    IF plugin.gen = "ocp"
    THEN \E r \in {ocp_get_track_length(plugin, now)} :
            Handled("get_track_length", r.value, [W EXCEPT !.plugin = r.plugin])
    ELSE \E r \in {get_track_length(hooks, now)} :
            Handled("get_track_length", r.value, [W EXCEPT !.hooks = r.hooks])

Tick ==
    /\ now < MaxTime
    /\ now' = now + 1
    /\ UNCHANGED <<hooks, plugin, client, play, last, bus, cb, events>>

\* ------------------------------------------------- SpotifyClient operations
\* the inputs a handler depends on: the broker is asked only while the client
\* is not connected, the Web API only when the device cache is not served.
\* CredsInputs is a broker that can be reached, BrokerInputs any broker
CredsInputs == IF client.spotify THEN {"token"} ELSE {"token", "no token"}
BrokerInputs == IF client.spotify THEN {"token"} ELSE Brokered
RespInputs ==
    IF CacheStale(client, now) THEN DeviceResponses
    ELSE {[ok |-> TRUE, devices |-> client.device_list[1]]}

ClientOp(op, dev_id, res) ==
    \E r \in {res} :
    /\ client' = r.client
    /\ last' = [op |-> op, dev_id |-> dev_id, devs |-> r.devs,
                connected |-> r.client.spotify, resolved |-> r.resolved,
                resolve_exc |-> r.resolve_exc, exc |-> r.exc, api |-> r.api]
    /\ UNCHANGED <<now, hooks, plugin, play, bus, cb, events>>

ClientPause ==
    \E dev_id \in Identifiers, creds \in CredsInputs, resp \in RespInputs,
       ok \in BOOLEAN :
        ClientOp("pause", dev_id,
                 transport(client, "pause_playback", dev_id, None,
                           now, creds, resp, ok))
ClientResume ==
    \E dev_id \in Identifiers, creds \in CredsInputs, resp \in RespInputs,
       ok \in BOOLEAN :
        ClientOp("resume", dev_id,
                 transport(client, "start_playback", dev_id, None,
                           now, creds, resp, ok))
ClientNext ==
    \E dev_id \in Identifiers, creds \in CredsInputs, resp \in RespInputs,
       ok \in BOOLEAN :
        ClientOp("next", dev_id,
                 transport(client, "next_track", dev_id, None,
                           now, creds, resp, ok))
ClientPrevious ==
    \E dev_id \in Identifiers, creds \in CredsInputs, resp \in RespInputs,
       ok \in BOOLEAN :
        ClientOp("previous", dev_id,
                 transport(client, "previous_track", dev_id, None,
                           now, creds, resp, ok))
ClientVolume ==
    \E dev_id \in Identifiers, creds \in CredsInputs, resp \in RespInputs,
       ok \in BOOLEAN, volume \in {33} :
        ClientOp("volume", dev_id,
                 transport(client, "volume", dev_id, volume,
                           now, creds, resp, ok))

\* a read of the property devices
ClientDevices ==
    \E creds \in CredsInputs, resp \in RespInputs :
        \E r \in {devices(client, now, creds, resp)} :
            /\ client' = r.client
            /\ last' = [op |-> "devices", t |-> now, pre |-> client,
                        connected |-> r.client.spotify,
                        ret |-> r.value, exc |-> r.exc, api |-> r.api]
            /\ UNCHANGED <<now, hooks, plugin, play, bus, cb, events>>

\* time passes by 30 or 31 seconds
ClientTick ==
    \E d \in {30, 31} :
        /\ now + d <= MaxClientTime
        /\ now' = now + d
        /\ UNCHANGED <<hooks, plugin, client, play, last, bus, cb, events>>

\* a read of the property playlists
PlaylistInputs ==
    IF PlaylistsStale(client, now) THEN PlaylistResponses
    ELSE {[ok |-> TRUE, items |-> <<>>]}

ClientPlaylists ==
    \E creds \in CredsInputs, resp \in PlaylistInputs :
        \E r \in {playlists(client, now, creds, resp)} :
            /\ client' = r.client
            /\ last' = [op |-> "playlists", t |-> now, pre |-> client,
                        connected |-> r.client.spotify, items |-> resp.items,
                        ret |-> r.value, exc |-> r.exc, api |-> r.api]
            /\ UNCHANGED <<now, hooks, plugin, play, bus, cb, events>>

\* time passes by 150 or 151 seconds
PlaylistTick ==
    \E d \in {150, 151} :
        /\ now + d <= MaxPlaylistTime
        /\ now' = now + d
        /\ UNCHANGED <<hooks, plugin, client, play, last, bus, cb, events>>

\* ------------------------------------------------- backend plugin operations
\* what the account can answer to a device-list request of a plugin handler
Kitchen(is_active) == Dev("a", "Kitchen", "Speaker", is_active)
Office(is_active) == Dev("b", "Office", "Computer", is_active)
\* a device whose id is the configured name
Named(is_active) == Dev("Kitchen", "Kitchen", "Speaker", is_active)
\* the device librespot would register under the name that
\* maybe_launch_librespot sets
Librespot(is_active) == Dev("u", "ovos-uuid", "Computer", is_active)
AccountLists ==
    {<<>>, <<Kitchen(TRUE)>>, <<Office(TRUE), Kitchen(FALSE)>>,
     <<Named(TRUE)>>}
AccountResponses ==
    {[ok |-> TRUE, devices |-> l] : l \in AccountLists}
        \cup {[ok |-> FALSE, devices |-> <<>>]}

\* the seconds that pass in one step of the plugin clock: the sleep of the
\* wait loop, or more than the lifetime of the device cache
ClockSteps == {2, 62}

\* the inputs of a handler: the broker's answer, the account's device list and
\* playback status, the outcome of a transport call and of a play command
Inputs(resps, statuses, oks, outcomes) ==
    [creds : CredsInputs, resp : resps, status : statuses,
     ok : oks, play : outcomes]
\* a handler that only reads the cached device list asks the account for it
\* only when the cache is not served
CacheInputs ==
    IF client.spotify /\ ~CacheStale(client, now)
    THEN {[ok |-> TRUE, devices |-> client.device_list[1]]}
    ELSE AccountResponses
TransportInputs == Inputs(CacheInputs, {"idle"}, BOOLEAN, {"ok"})
PlayingInputs == Inputs(AccountResponses, Statuses, BOOLEAN, {"ok"})
PlayInputs == Inputs(CacheInputs, {"idle"}, {TRUE}, PlayOutcomes)
PollInputs == Inputs(CacheInputs, {"idle"}, {TRUE}, {"ok"})

\* whether the account plays on the plugin's target device, the device of
\* the configured name or for the legacy plugin whatever device is active:
\* "yes", "no", or "unknown" when the account's answers do not tell
TargetActive(p, inp) ==
    \E i \in 1..Len(inp.resp.devices) :
        /\ inp.resp.devices[i].is_active
        /\ p.device_name # None => inp.resp.devices[i].name = p.device_name
TargetPlaying(p, inp) ==
    IF inp.status = "idle" THEN "no"
    ELSE IF inp.status = "playing" /\ inp.resp.ok
    THEN IF TargetActive(p, inp) THEN "yes"
         ELSE IF p.device_name # None THEN "no" ELSE "unknown"
    ELSE "unknown"

S == St(plugin, client, hooks)

\* the playback requests among the Web API calls of a handler
Requests(api) ==
    SelectSeq(api, LAMBDA a : a.call \notin {"devices", "current_user_playing_track"})

Playing == play.pc \notin {"idle", "returned"}

\* a step of a plugin handler that ended in st, with the play call left in pl
PluginStep(op, inp, res, ended, pl) ==
    \E st \in {res} :
    /\ plugin' = st.plugin
    /\ client' = st.client
    /\ hooks' = st.hooks
    /\ play' = pl
    /\ last' = [op |-> op, t |-> now, calls |-> Len(st.api),
                api |-> Requests(st.api), host |-> st.host, exc |-> st.exc,
                pre_paused |-> plugin.paused,
                target_playing |-> TargetPlaying(plugin, inp),
                track_end |-> ended,
                unchanged |-> /\ st.plugin = plugin
                              /\ st.client = client
                              /\ st.hooks = hooks]
    /\ UNCHANGED <<now, bus, cb, events>>

\* the track-end transition ran in a handler that began in s0 and ended in st
TrackEnded(s0, st) == Len(st.host) > Len(s0.host) /\ st.host[Len(st.host)] = None

Because(cause, ended) ==
    IF ended /\ Playing THEN [play EXCEPT !.cause = cause] ELSE play

PluginStop ==
    \E inp \in TransportInputs :
        \E st \in {stop(S, now, inp)} :
            \E ended \in {~Raised(st) /\ TrackEnded(S, st)} :
                PluginStep("stop", inp, st, ended, Because("stop", ended))

PluginPause ==
    \E inp \in PlayingInputs :
        PluginStep("pause", inp, pause(S, now, inp), FALSE, play)

PluginResume ==
    \E inp \in TransportInputs :
        PluginStep("resume", inp, resume(S, now, inp), FALSE, play)

\* maybe_launch_librespot of the legacy plugin
LaunchLibrespot ==
    /\ plugin.gen = "legacy"
    /\ \E inp \in Inputs({[ok |-> FALSE, devices |-> <<>>]}, {"idle"}, {TRUE},
                         {"ok"}) :
        PluginStep("maybe_launch_librespot", inp,
                   [S EXCEPT !.plugin = maybe_launch_librespot(plugin)],
                   FALSE, play)

PluginLowerVolume ==
    \E inp \in PlayingInputs :
        PluginStep("lower_volume", inp, lower_volume(S, now, inp), FALSE, play)

PluginRestoreVolume ==
    \E inp \in PlayingInputs :
        PluginStep("restore_volume", inp, restore_volume(S, now, inp), FALSE,
                   play)

\* the host loads a track into the plugin before it calls play
LoadTrack ==
    \E uri \in {TrackUri("t1")} :
        /\ ~Playing
        /\ plugin' = [plugin EXCEPT !.now_playing = uri]
        /\ last' = [op |-> "load_track"]
        /\ UNCHANGED <<now, hooks, client, play, bus, cb, events>>

\* play(), first statement of audio.py: self.hooks.preload_uri(...)
PlayPreload ==
    /\ plugin.gen = "audio"
    /\ ~Playing
    /\ \E inp \in {CHOOSE i \in PollInputs : TRUE} :
        PluginStep("play:preload_uri", inp,
                   [S EXCEPT !.hooks = preload_uri(@, plugin.now_playing, now)],
                   FALSE,
                   [play EXCEPT !.pc = "preloaded", !.slept = FALSE,
                                !.steps = <<"preload_uri">>, !.cause = "none",
                                !.issued = 0])

\* play(): self.on_track_start(), in audio.py after the preload, in the OCP
\* plugin the first statement of play()
PlayTrackStart ==
    /\ \/ plugin.gen = "audio" /\ play.pc = "preloaded"
       \/ plugin.gen = "ocp" /\ ~Playing
    /\ \E inp \in {CHOOSE i \in PollInputs : TRUE} :
        PluginStep("play:on_track_start", inp,
                   plugin_on_track_start(S, now), FALSE,
                   IF plugin.gen = "ocp"
                   THEN [play EXCEPT !.pc = "started", !.slept = FALSE,
                                     !.steps = <<"on_track_start">>,
                                     !.cause = "none", !.issued = 0]
                   ELSE [play EXCEPT !.pc = "started",
                                     !.steps = Append(@, "on_track_start"),
                                     !.cause = "none"])

\* play(): self.spotify.play(...), and on_track_error() when it raises
PlayCommand ==
    /\ play.pc = "started"
    /\ \E inp \in PlayInputs :
        \E st \in {play_command(S, now, inp)} :
            IF Raised(st)
            THEN PluginStep("play:spotify.play", inp,
                            plugin_on_track_error(st), FALSE,
                            [play EXCEPT !.pc = "returned",
                                         !.cause = "error"])
            ELSE PluginStep("play:spotify.play", inp, st, FALSE,
                            [play EXCEPT !.pc = "wait",
                                         !.steps = Append(@, "spotify.play"),
                                         !.issued = now])

\* _wait_until_finished: the test of the loop, then time.sleep(2)
WaitCheck ==
    /\ play.pc = "wait"
    /\ \E inp \in {CHOOSE i \in PollInputs : TRUE} :
        PluginStep("play:wait", inp, S, FALSE,
                   IF StillWaiting(plugin)
                   THEN [play EXCEPT !.pc = "sleep", !.slept = FALSE]
                   ELSE [play EXCEPT !.pc = "returned"])

\* _wait_until_finished: the device list read after the sleep
WaitPoll ==
    /\ play.pc = "sleep"
    /\ play.slept
    /\ \E inp \in PollInputs :
        \E st \in {wait_poll(S, now, inp)} :
            IF Raised(st)
            THEN PluginStep("play:poll", inp, plugin_on_track_error(st), FALSE,
                            [play EXCEPT !.pc = "returned",
                                         !.cause = "error"])
            ELSE IF st.ret
            THEN PluginStep("play:poll", inp, st, TRUE,
                            [play EXCEPT !.pc = "returned",
                                         !.cause = "inactive"])
            ELSE PluginStep("play:poll", inp, st, FALSE,
                            [play EXCEPT !.pc = "wait"])

\* the bridge of audio.py hears spotifyd report the end of the track
BridgeEnd ==
    /\ plugin.gen = "audio"
    /\ \E inp \in {CHOOSE i \in PollInputs : TRUE} :
        PluginStep("end_of_track", inp, on_spotify_end(S), TRUE,
                   Because("bridge_end", TRUE))

\* the bridge of audio.py hears spotifyd report that a track plays
BridgePlay ==
    /\ plugin.gen = "audio"
    /\ \E inp \in {CHOOSE i \in PollInputs : TRUE} :
        PluginStep("play", inp, on_spotify_play(S, "t1", 2000, 0, now), FALSE,
                   IF Playing THEN [play EXCEPT !.cause = "none"] ELSE play)

\* time passes
PluginTick ==
    \E d \in ClockSteps :
        /\ play.ticks < MaxTicks
        /\ now' = now + d
        /\ play' = [play EXCEPT !.ticks = @ + 1,
                                !.slept = @ \/ play.pc = "sleep"]
        /\ UNCHANGED <<hooks, plugin, client, last, bus, cb, events>>

\* ----------------------------------------------------------- specifications
InitBridge ==
    /\ now = 1
    /\ hooks = HooksInit
    /\ plugin = PluginInit("audio")
    /\ client = ClientInit("newer")
    /\ play = PlayInit
    /\ last = Last("init", None, World(HooksInit, PluginInit("audio")))
    /\ bus = <<>>
    /\ cb = <<>>
    /\ events = <<>>

\* a freshly constructed bridge whose whole output is observed
NextEvents ==
    \/ EvStart \/ EvPlay \/ EvStop \/ EvPause
    \/ EvLoad \/ EvPreloading \/ EvEnd \/ EvChange
SpecEvents == InitBridge /\ [][NextEvents]_vars

\* the bridge under events, queries and the passing of time
NextBridge ==
    \/ HookStart \/ HookPlay \/ HookStop \/ HookPause
    \/ HookLoad \/ HookPreloading \/ HookEnd \/ HookChange
    \/ Preload \/ ResetMetadata \/ GetTrackPosition \/ GetTrackLength
    \/ Tick
SpecBridge == InitBridge /\ [][NextBridge]_vars

InitClient ==
    /\ now = 1
    /\ hooks = HooksInit
    /\ \E gen \in {"legacy", "newer"} :
        /\ plugin = PluginInit(IF gen = "legacy" THEN "legacy" ELSE "audio")
        /\ client = ClientInit(gen)
    /\ play = PlayInit
    /\ last = [op |-> "init"]
    /\ bus = <<>>
    /\ cb = <<>>
    /\ events = <<>>

\* device resolution and the transport operations of a client
NextResolve ==
    \/ ClientPause \/ ClientResume \/ ClientNext \/ ClientPrevious
    \/ ClientVolume
SpecResolve == InitClient /\ [][NextResolve]_vars

\* the device cache under reads and the passing of time
NextCache == ClientDevices \/ ClientTick
SpecCache == InitClient /\ [][NextCache]_vars

InitLegacyClient ==
    /\ now = 1
    /\ hooks = HooksInit
    /\ plugin = PluginInit("legacy")
    /\ client = ClientInit("legacy")
    /\ play = PlayInit
    /\ last = [op |-> "init"]
    /\ bus = <<>>
    /\ cb = <<>>
    /\ events = <<>>

\* the playlist cache of the legacy client under reads and the passing of time
NextPlaylists == ClientPlaylists \/ PlaylistTick
SpecPlaylists == InitLegacyClient /\ [][NextPlaylists]_vars

InitPlugin ==
    /\ now = 1
    /\ hooks = HooksInit
    /\ \E gen \in {"legacy", "ocp", "audio"} :
        /\ plugin = PluginInit(gen)
        /\ client = ClientInit(IF gen = "legacy" THEN "legacy" ELSE "newer")
    /\ play = PlayInit
    /\ last = [op |-> "init"]
    /\ bus = <<>>
    /\ cb = <<>>
    /\ events = <<>>

\* a backend plugin under the host's transport operations, the bridge's
\* report of a track end and the passing of time
NextControls ==
    \/ PluginStop \/ PluginPause \/ PluginResume
    \/ PluginLowerVolume \/ PluginRestoreVolume
    \/ LaunchLibrespot
    \/ BridgeEnd
    \/ PluginTick
SpecControls == InitPlugin /\ [][NextControls]_vars

InitMedia ==
    /\ InitPlugin
    /\ plugin.gen = "audio"

\* the play call of audio.py, step by step, while the host stops it, the
\* bridge reports and time passes
NextPlay ==
    \/ LoadTrack \/ PlayPreload \/ PlayTrackStart \/ PlayCommand
    \/ WaitCheck \/ WaitPoll
    \/ BridgeEnd \/ BridgePlay
    \/ PluginStop
    \/ PluginTick
SpecPlay == InitMedia /\ [][NextPlay]_vars

\* ------------------------------------------------- OVOSSpotifyCredentials
\* an exception: its type and, for the two HTTP kinds, its status;
\* HTTPError is that of requests, SpotifyException that of spotipy
Exc(type, status) == [type |-> type, status |-> status]
NoExc == Exc("none", 0)
NotAuthorized == Exc("SpotifyNotAuthorizedError", 0)

\* "if missing assume 1 hour"
TokenLifetime == 3600
Tokens == {"tokA", "tokB"}
\* the 'expiration' of a token message: absent (<<>>), zero, or a timestamp
Expirations == {<<>>, <<0>>, <<1800>>}

\* what OAuthApi().get_oauth_token answers: a token message, nothing, an
\* HTTPError with its status, or an exception that is no HTTPError
BrokerAnswer(kind, status, token, expiration) ==
    [kind |-> kind, status |-> status, access_token |-> token,
     expiration |-> expiration]
BrokerAnswers ==
    {BrokerAnswer("dict", 0, tok, e) : tok \in Tokens, e \in Expirations}
        \cup {BrokerAnswer("empty", 0, None, <<>>)}
        \cup {BrokerAnswer("HTTPError", s, None, <<>>) : s \in {404, 401, 500}}
        \cup {BrokerAnswer("ConnectionError", 0, None, <<>>)}

\* get_token sets retry: an HTTPError that is neither 404 nor 401
Retried(b) == b.kind = "HTTPError" /\ b.status \notin {404, 401}

\* the answers of the broker to the calls of one fetch, in order; the second
\* is read only when the first call is retried
BrokerScripts ==
    {<<b>> : b \in {a \in BrokerAnswers : ~Retried(a)}}
        \cup {<<b1, b2>> : b1 \in {a \in BrokerAnswers : Retried(a)},
                           b2 \in BrokerAnswers}

\* the exception a broker call raises
BrokerRaise(b) == Exc(b.kind, b.status)

\* the outcome of get_token: the message d, the exception, the broker calls
Fetched(d, exc, calls) == [d |-> d, exc |-> exc, calls |-> calls]

\* the call made "if retry:" and the test "if not d:" after it
get_token_retry(b2) ==
    IF b2.kind = "dict" THEN Fetched(b2, NoExc, 2)
    ELSE IF b2.kind = "empty" THEN Fetched(b2, NotAuthorized, 2)
    ELSE Fetched(b2, BrokerRaise(b2), 2)

\* OVOSSpotifyCredentials.get_token
get_token(answers) ==
    IF answers[1].kind = "HTTPError" /\ answers[1].status \in {404, 401}
    THEN Fetched(answers[1], NotAuthorized, 1)
    ELSE IF answers[1].kind = "HTTPError" THEN get_token_retry(answers[2])
    ELSE IF answers[1].kind = "dict" THEN Fetched(answers[1], NoExc, 1)
    ELSE IF answers[1].kind = "empty" THEN Fetched(answers[1], NotAuthorized, 1)
    ELSE Fetched(answers[1], BrokerRaise(answers[1]), 1)

\* OVOSSpotifyCredentials.__init__ before its call of get_access_token;
\* expiration_time is <<>> for None
CredentialsInit == [access_token |-> None, expiration_time |-> <<>>]

\* the outcome of get_access_token: the credentials after it, the token
\* returned, the exception, the broker calls
Token(cr, value, exc, calls) ==
    [credentials |-> cr, value |-> value, exc |-> exc, calls |-> calls]

\* d.get('expiration') or time.time() + 3600
expiration_of(d, t) ==
    IF d.expiration # <<>> /\ d.expiration[1] # 0 THEN d.expiration[1]
    ELSE t + TokenLifetime

\* get_access_token with the force flag left out of its test
get_access_token_unforced(cr, force, t, answers) ==
    IF cr.access_token = None \/ t > cr.expiration_time[1]
    THEN With(get_token(answers), LAMBDA f :
            IF f.exc # NoExc THEN Token(cr, None, f.exc, f.calls)
            ELSE Token([access_token |-> f.d.access_token,
                        expiration_time |-> <<expiration_of(f.d, t)>>],
                       f.d.access_token, NoExc, f.calls))
    ELSE Token(cr, cr.access_token, NoExc, 0)

\* OVOSSpotifyCredentials.get_access_token
get_access_token(cr, force, t, answers) ==
    IF cr.access_token = None \/ t > cr.expiration_time[1] \/ force
    THEN With(get_token(answers), LAMBDA f :
            IF f.exc # NoExc THEN Token(cr, None, f.exc, f.calls)
            ELSE Token([access_token |-> f.d.access_token,
                        expiration_time |-> <<expiration_of(f.d, t)>>],
                       f.d.access_token, NoExc, f.calls))
    ELSE Token(cr, cr.access_token, NoExc, 0)

\* ---------------------------------------------------- refresh_spotify_oauth
\* how one attempt of a Web API call ends
Outcome(kind, status) == [kind |-> kind, status |-> status]
Succeeds == Outcome("ok", 0)
Outcomes ==
    {Succeeds, Outcome("Exception", 0)}
        \cup {Outcome(k, s) : k \in {"HTTPError", "SpotifyException"},
                              s \in {401, 403}}

\* the wrapper's test: except HTTPError as e, e.response.status_code == 401
Unauthorized(a) == a.kind = "HTTPError" /\ a.status = 401

\* how the attempts of one wrapped call end, in order; there is a second
\* attempt only after an unauthorized first one
AttemptScripts ==
    {<<a>> : a \in {o \in Outcomes : ~Unauthorized(o)}}
        \cup {<<a1, a2>> : a1 \in {o \in Outcomes : Unauthorized(o)},
                           a2 \in Outcomes}

\* the exception an attempt raises
Raise(a) == IF a.kind = "ok" THEN NoExc ELSE Exc(a.kind, a.status)

\* the outcome of a wrapped call: the credentials after it, the exception,
\* the attempts made, the forced refreshes, the broker calls
Wrapped(cr, exc, attempts, refreshes, calls) ==
    [credentials |-> cr, exc |-> exc, attempts |-> attempts,
     refreshes |-> refreshes, calls |-> calls]

\* the wrapper of refresh_spotify_oauth around one SpotifyConnect method
refresh_spotify_oauth(cr, t, attempts, answers) ==
    IF Unauthorized(attempts[1])
    THEN With(get_access_token(cr, TRUE, t, answers), LAMBDA r :
            IF r.exc # NoExc THEN Wrapped(r.credentials, r.exc, 1, 1, r.calls)
            ELSE Wrapped(r.credentials, Raise(attempts[2]), 2, 1, r.calls))
    ELSE Wrapped(cr, Raise(attempts[1]), 1, 0, 0)

\* ------------------------------------------- SpotifyClient.play and resume
\* the property spotify: load_credentials on first use, where the constructor
\* of the credentials fetches a token; its except clause takes HTTPError and
\* SpotifyNotAuthorizedError and logs, any other exception propagates
spotify(c, t, answers) ==
    IF c.spotify THEN [client |-> c, exc |-> NoExc, calls |-> 0]
    ELSE With(get_access_token(CredentialsInit, FALSE, t, answers), LAMBDA r :
        IF r.exc = NoExc
        THEN [client |-> [c EXCEPT !.spotify = TRUE,
                                   !.credentials = r.credentials],
              exc |-> NoExc, calls |-> r.calls]
        ELSE IF r.exc.type \in {"HTTPError", "SpotifyNotAuthorizedError"}
        THEN [client |-> c, exc |-> NoExc, calls |-> r.calls]
        ELSE [client |-> c, exc |-> r.exc, calls |-> r.calls])

\* what the broker answers to the constructor of the credentials when play or
\* resume connects the client: a token without an expiration when creds, no
\* token otherwise
CredsAnswers(creds) ==
    IF creds = "token" THEN <<BrokerAnswer("dict", 0, "tokA", <<>>)>>
    ELSE IF creds = "no token" THEN <<BrokerAnswer("empty", 0, None, <<>>)>>
    ELSE <<BrokerAnswer(creds, 0, None, <<>>)>>

\* a connected client with its credentials manager
\* (spotify.client_credentials_manager) and the device it last played on
AuthClient(gen, cr) ==
    [gen |-> gen, spotify |-> TRUE, device_list |-> <<>>, devices_fetched |-> 0,
     playlists |-> <<>>, playlists_fetched |-> 0, credentials |-> cr,
     dev_id |-> None]

MaxUris == 2
Uri(kind, id) == "spotify:" \o kind \o ":" \o id
AlbumX == Uri("album", "X")
ArtistA == Uri("artist", "A")
PlaylistP == Uri("playlist", "P")
\* uri.startswith("spotify:<kind>:") over the URIs of the catalog
startswith(uri, kind) ==
    uri \in {Uri(kind, id) : id \in TrackIds \cup {"X", "A", "P"}}

\* the answers of the Web API to album_tracks, artist_top_tracks and
\* playlist_tracks: JSON objects that hold the tracks under a key
album_tracks(uri) == [items |-> <<[id |-> "t1"], [id |-> "t2"]>>]
artist_top_tracks(uri) == [tracks |-> <<[id |-> "t2"]>>]
playlist_tracks(playlist_id) == [items |-> <<[track |-> [id |-> "t1"]]>>]

\* ["spotify:track:" + t["id"] for t in tracks]
TrackUris(tracks) == [i \in 1..Len(tracks) |-> TrackUri(tracks[i].id)]

\* an entry of the list uris once the loop of play has passed it: the URI
\* itself, or the list that has replaced it
Cell(nested, items) == [nested |-> nested, uris |-> items]
Plain(uri) == Cell(FALSE, <<uri>>)

CatalogCall(call, uri) == [call |-> call, device |-> None, arg |-> uri]

\* playlist_id.replace("spotify:playlist:", "")
PlaylistId(uri) ==
    CHOOSE id \in TrackIds \cup {"X", "A", "P"} : uri = Uri("playlist", id)

\* one round of the loop "for idx, uri in enumerate(uris)": the entry left at
\* idx, the Web API call made, the exception raised. tracks_from_playlist
\* hands back the answer of playlist_tracks as it is, and the loop over that
\* object yields its keys, strings, which t["track"] cannot subscript
Expanded(cell, api, exc) == [cell |-> cell, api |-> api, exc |-> exc]
expand(uri, connected) ==
    IF uri = None THEN Expanded(Plain(uri), <<>>, Exc("AttributeError", 0))
    ELSE IF startswith(uri, "playlist")
    THEN IF ~connected
         THEN Expanded(Plain(uri), <<>>, Exc("AttributeError", 0))
         ELSE IF DOMAIN playlist_tracks(PlaylistId(uri)) = {}
         THEN Expanded(Cell(TRUE, <<>>),
                       <<CatalogCall("playlist_tracks", PlaylistId(uri))>>,
                       NoExc)
         ELSE Expanded(Plain(uri),
                       <<CatalogCall("playlist_tracks", PlaylistId(uri))>>,
                       Exc("TypeError", 0))
    ELSE IF startswith(uri, "artist")
    THEN IF ~connected
         THEN Expanded(Plain(uri), <<>>, Exc("AttributeError", 0))
         ELSE Expanded(Cell(TRUE, TrackUris(artist_top_tracks(uri).tracks)),
                       <<CatalogCall("artist_top_tracks", uri)>>, NoExc)
    ELSE IF startswith(uri, "album")
    THEN IF ~connected
         THEN Expanded(Plain(uri), <<>>, Exc("AttributeError", 0))
         ELSE Expanded(Cell(TRUE, TrackUris(album_tracks(uri).items)),
                       <<CatalogCall("album_tracks", uri)>>, NoExc)
    ELSE Expanded(Plain(uri), <<>>, NoExc)

\* flatten_list(uris) of ovos_utils, which the repository imports and does not
\* hold: as the specification has it, the entries expanded and not expanded
\* "flattened into one ordered track-URI list"
RECURSIVE flatten_list(_)
flatten_list(cells) ==
    IF cells = <<>> THEN <<>>
    ELSE Head(cells).uris \o flatten_list(Tail(cells))

RECURSIVE Concat(_)
Concat(seqs) == IF seqs = <<>> THEN <<>> ELSE Head(seqs) \o Concat(Tail(seqs))

\* the whole loop over uris: the list as the loop leaves it (entries past a
\* raising one untouched), the Web API calls, the exception that ended it
Expansion(cells, api, exc) == [cells |-> cells, api |-> api, exc |-> exc]
expand_all(uris, connected) ==
    With([i \in 1..Len(uris) |-> expand(uris[i], connected)], LAMBDA e :
        With({i \in 1..Len(uris) : e[i].exc # NoExc}, LAMBDA bad :
            With(IF bad = {} THEN Len(uris) + 1
                 ELSE CHOOSE i \in bad : \A j \in bad : i <= j, LAMBDA stop_at :
                Expansion([i \in 1..Len(uris) |->
                              IF i < stop_at THEN e[i].cell ELSE Plain(uris[i])],
                          Concat([i \in 1..Min(stop_at, Len(uris)) |-> e[i].api]),
                          IF bad = {} THEN NoExc ELSE e[stop_at].exc))))

\* the outcome of play: the client after it, the caller's list after it, the
\* Web API calls, the exception, and what the wrapper did
Played(c, cells, api, exc, attempts, refreshes) ==
    [client |-> c, cells |-> cells, api |-> api, exc |-> exc,
     attempts |-> attempts, refreshes |-> refreshes]

\* uris is <<>> for None and <<list>> for a list
StartPlayback(dev, uris, context_uri) ==
    [call |-> "start_playback", device |-> dev,
     arg |-> [uris |-> uris, context_uri |-> context_uri]]
Repeat(state) == [call |-> "repeat", device |-> None, arg |-> state]

\* n attempts of one request
Attempts(request, n) == [i \in 1..n |-> request]

\* the except clauses of play
play_except(exc) ==
    IF exc.type = "SpotifyException"
    THEN IF exc.status = 403 THEN NoExc ELSE NotAuthorized
    ELSE exc

\* the repeat call that follows the play call in the legacy client
play_repeat(p, repeat, t, rattempts, answers) ==
    IF p.exc # NoExc \/ p.client.gen # "legacy" \/ repeat = None THEN p
    ELSE With(refresh_spotify_oauth(p.client.credentials, t, rattempts,
                                    answers), LAMBDA w :
            Played([p.client EXCEPT !.credentials = w.credentials], p.cells,
                   p.api \o Attempts(Repeat(IF repeat = "True" THEN "context"
                                            ELSE "off"), w.attempts),
                   w.exc, p.attempts + w.attempts,
                   p.refreshes + w.refreshes))

\* the try block of play: the wrapped play call, self.dev_id = dev_id, the
\* repeat call; uris is <<>> for None and <<list>> for a list
play_try(c, cells, api, dev_id, uris, context_uri, repeat, t, attempts, rattempts, answers) ==
    IF ~c.spotify
    THEN Played(c, cells, api, Exc("AttributeError", 0), 0, 0)
    ELSE With(refresh_spotify_oauth(c.credentials, t, attempts, answers),
              LAMBDA w :
            play_repeat(
                Played([c EXCEPT !.credentials = w.credentials,
                                 !.dev_id = IF w.exc = NoExc THEN dev_id ELSE @],
                       cells,
                       api \o Attempts(StartPlayback(dev_id, uris, context_uri),
                                       w.attempts),
                       w.exc, w.attempts, w.refreshes),
                repeat, t, rattempts, answers))

\* SpotifyClient.play(uris, dev_id, context_uri, repeat), uris a list; repeat
\* is "None", "False" or "True" and read by the legacy client only. The first
\* read of self.devices connects a client that is not connected yet
play_uris(c, uris, dev_id, context_uri, repeat, t, creds, resp, attempts, rattempts, answers) ==
    With(validate_device_id(spotify(c, t, CredsAnswers(creds)).client, dev_id,
                            t, creds, resp), LAMBDA v :
        IF v.exc # "none"
        THEN Played(v.client, [i \in 1..Len(uris) |-> Plain(uris[i])], v.api,
                    Exc(v.exc, 0), 0, 0)
        ELSE IF context_uri # None
        THEN With(play_try(v.client, [i \in 1..Len(uris) |-> Plain(uris[i])],
                           v.api, v.value, <<uris>>, context_uri, repeat, t,
                           attempts, rattempts, answers), LAMBDA p :
                [p EXCEPT !.exc = play_except(@)])
        ELSE With(expand_all(uris, v.client.spotify), LAMBDA x :
            IF x.exc # NoExc
            THEN Played(v.client, x.cells, v.api \o x.api, x.exc, 0, 0)
            ELSE With(play_try(v.client, x.cells, v.api \o x.api, v.value,
                               <<flatten_list(x.cells)>>, None, repeat, t,
                               attempts, rattempts, answers), LAMBDA p :
                    [p EXCEPT !.exc = play_except(@)])))

\* SpotifyClient.play(dev_id=dev_id, context_uri=context_uri), uris left None:
\* with a context URI the loop over uris is skipped and the play call carries
\* no uris; without one uris becomes [None], whose entry has no startswith
play_context(c, dev_id, context_uri, repeat, t, creds, resp, attempts, rattempts, answers) ==
    With(validate_device_id(spotify(c, t, CredsAnswers(creds)).client, dev_id,
                            t, creds, resp), LAMBDA v :
        IF v.exc # "none"
        THEN Played(v.client, <<>>, v.api, Exc(v.exc, 0), 0, 0)
        ELSE IF context_uri = None
        THEN Played(v.client, <<>>, v.api, Exc("AttributeError", 0), 0, 0)
        ELSE With(play_try(v.client, <<>>, v.api, v.value, <<>>, context_uri,
                           repeat, t, attempts, rattempts, answers), LAMBDA p :
                [p EXCEPT !.exc = play_except(@)]))

\* start_playlist_playback(uri, dev_id=dev_id), uri not empty: the device is
\* resolved and looked up with get_device, its name is logged (no device of
\* that id: dev is None and dev['name'] raises TypeError), then play is called
\* with the resolved device and the URI as context
start_playlist_playback(c, uri, dev_id, t, creds, resp, attempts, answers) ==
    With(validate_device_id(spotify(c, t, CredsAnswers(creds)).client, dev_id,
                            t, creds, resp), LAMBDA v :
        IF v.exc # "none"
        THEN Played(v.client, <<>>, v.api, Exc(v.exc, 0), 0, 0)
        ELSE With(devices(v.client, t, creds, resp), LAMBDA d :
            IF d.exc # "none"
            THEN Played(d.client, <<>>, v.api \o d.api, Exc(d.exc, 0), 0, 0)
            ELSE IF ~HasId(d.value, v.value)
            THEN Played(d.client, <<>>, v.api \o d.api, Exc("TypeError", 0),
                        0, 0)
            ELSE With(play_context(d.client, v.value, uri, "None", t, creds,
                                   resp, attempts, <<Succeeds>>, answers),
                      LAMBDA p : [p EXCEPT !.api = v.api \o d.api \o @])))

\* SpotifyClient.play(uris, dev_id), uris a string: a playlist URI goes to
\* start_playlist_playback, which hands on neither context_uri nor repeat; any
\* other string is wrapped in a list and played as that list when there is no
\* context URI, and with a context URI it is sent as the string it is (the
\* uris of the request are <<uri>> for a string, <<list>> for a list)
play_str(c, uri, dev_id, context_uri, repeat, t, creds, resp, attempts, rattempts, answers) ==
    IF startswith(uri, "playlist")
    THEN start_playlist_playback(c, uri, dev_id, t, creds, resp, attempts,
                                 answers)
    ELSE IF context_uri = None
    THEN play_uris(c, <<uri>>, dev_id, context_uri, repeat, t, creds, resp,
                   attempts, rattempts, answers)
    ELSE With(validate_device_id(spotify(c, t, CredsAnswers(creds)).client,
                                 dev_id, t, creds, resp), LAMBDA v :
        IF v.exc # "none"
        THEN Played(v.client, <<Plain(uri)>>, v.api, Exc(v.exc, 0), 0, 0)
        ELSE With(play_try(v.client, <<Plain(uri)>>, v.api, v.value, <<uri>>,
                           context_uri, repeat, t, attempts, rattempts,
                           answers), LAMBDA p :
                [p EXCEPT !.exc = play_except(@)]))

\* SpotifyClient.resume: the wrapped play call with a device only, and no
\* except clause around it
client_resume(c, dev_id, t, creds, resp, attempts, answers) ==
    With(validate_device_id(spotify(c, t, CredsAnswers(creds)).client, dev_id,
                            t, creds, resp), LAMBDA v :
        IF v.exc # "none"
        THEN Played(v.client, <<>>, v.api, Exc(v.exc, 0), 0, 0)
        ELSE IF ~v.client.spotify
        THEN Played(v.client, <<>>, v.api, Exc("AttributeError", 0), 0, 0)
        ELSE With(refresh_spotify_oauth(v.client.credentials, t, attempts,
                                        answers), LAMBDA w :
                Played([v.client EXCEPT !.credentials = w.credentials], <<>>,
                       v.api \o Attempts(StartPlayback(v.value, <<>>, None),
                                         w.attempts),
                       w.exc, w.attempts, w.refreshes)))

\* ------------------------------------------- credentials and play: actions
MaxTokenTime == 3602

\* the broker is asked only when a token is fetched
AnswersFor(fetches) ==
    IF fetches THEN BrokerScripts ELSE {<<BrokerAnswer("empty", 0, None, <<>>)>>}

\* the static method get_token on its own
GetToken ==
    \E answers \in BrokerScripts :
        \E f \in {get_token(answers)} :
            /\ last' = [op |-> "get_token", t |-> now, answers |-> answers,
                        d |-> f.d, exc |-> f.exc, calls |-> f.calls]
            /\ UNCHANGED <<now, hooks, plugin, client, play, bus, cb, events>>

\* get_access_token, the first time from the constructor of the credentials
GetAccessToken ==
    \E force \in BOOLEAN :
        \E answers \in AnswersFor(\/ client.credentials.access_token = None
                                  \/ now > client.credentials.expiration_time[1]
                                  \/ force) :
            \E r \in {get_access_token(client.credentials, force, now, answers)} :
                /\ client' = [client EXCEPT !.credentials = r.credentials]
                /\ last' = [op |-> "get_access_token", t |-> now,
                            pre |-> client.credentials, force |-> force,
                            answers |-> answers, value |-> r.value,
                            exc |-> r.exc, calls |-> r.calls]
                /\ UNCHANGED <<now, hooks, plugin, play, bus, cb, events>>

\* the client is connected once the constructor of its credentials has a token
Connected == client.credentials.access_token # None

\* a method of SpotifyConnect under the wrapper, called on its own
WrappedCall ==
    /\ Connected
    /\ \E attempts \in AttemptScripts :
        \E answers \in AnswersFor(Unauthorized(attempts[1])) :
            \E w \in {refresh_spotify_oauth(client.credentials, now, attempts,
                                            answers)} :
                /\ client' = [client EXCEPT !.credentials = w.credentials]
                /\ last' = [op |-> "wrapped", t |-> now,
                            pre |-> client.credentials, attempts |-> attempts,
                            answers |-> answers, exc |-> w.exc,
                            tries |-> w.attempts, refreshes |-> w.refreshes,
                            calls |-> w.calls]
                /\ UNCHANGED <<now, hooks, plugin, play, bus, cb, events>>

\* the broker's answers to the forced refresh of a play or resume call: the
\* token it hands out is a new one
RefreshAnswers(fetches) ==
    IF fetches
    THEN {a \in BrokerScripts :
            \A i \in 1..Len(a) :
                a[i].kind = "dict" =>
                    a[i].access_token = "tokB" /\ a[i].expiration = <<>>}
    ELSE {<<BrokerAnswer("empty", 0, None, <<>>)>>}

\* the account's answer to a device-list request made by play or resume
PlayDevices ==
    IF CacheStale(client, now) THEN [ok |-> TRUE, devices |-> <<Kitchen(TRUE)>>]
    ELSE [ok |-> TRUE, devices |-> client.device_list[1]]

\* the lists of URIs handed to play
UriPool == {TrackUri("t1"), TrackUri("t2"), AlbumX, ArtistA, PlaylistP}
UriLists ==
    UNION {[1..n -> UriPool] : n \in 0..MaxUris}

\* the record kept of a play or resume call that ended in p
PlayLast(op, uris, repeat, attempts, rattempts, answers, p) ==
    [op |-> op, t |-> now, pre |-> client.credentials, uris |-> uris,
     repeat |-> repeat, attempts |-> attempts, rattempts |-> rattempts,
     answers |-> answers, cells |-> p.cells, api |-> Requests(p.api),
     exc |-> p.exc, tries |-> p.attempts, refreshes |-> p.refreshes,
     dev_id |-> p.client.dev_id]

\* play of a list of URIs, every Web API call succeeding
PlayUris ==
    \E uris \in UriLists :
        \E p \in {play_uris(client, uris, "Kitchen", None, "None", now, "token",
                            PlayDevices, <<Succeeds>>, <<Succeeds>>,
                            <<BrokerAnswer("empty", 0, None, <<>>)>>)} :
            /\ client' = p.client
            /\ last' = PlayLast("play_uris", uris, "None", <<Succeeds>>,
                                <<Succeeds>>,
                                <<BrokerAnswer("empty", 0, None, <<>>)>>, p)
            /\ UNCHANGED <<now, hooks, plugin, play, bus, cb, events>>

\* how the repeat call of the legacy client ends
RepeatScripts ==
    {<<Succeeds>>, <<Outcome("SpotifyException", 403)>>,
     <<Outcome("SpotifyException", 401)>>, <<Outcome("Exception", 0)>>}

\* play of one track, the play call and the repeat call ending every way
PlayTrack ==
    \E attempts \in AttemptScripts :
        \E answers \in RefreshAnswers(Unauthorized(attempts[1])) :
            \E repeat \in IF client.gen = "legacy" /\ Len(attempts) = 1
                          THEN {"None", "False", "True"} ELSE {"None"} :
                \E rattempts \in IF repeat = "None" THEN {<<Succeeds>>}
                                 ELSE RepeatScripts :
                    \E p \in {play_uris(client, <<TrackUri("t1")>>, "Kitchen",
                                        None, repeat, now, "token", PlayDevices,
                                        attempts, rattempts, answers)} :
                        /\ client' = p.client
                        /\ last' = PlayLast("play", <<TrackUri("t1")>>, repeat,
                                            attempts, rattempts, answers, p)
                        /\ UNCHANGED <<now, hooks, plugin, play, bus, cb,
                                       events>>

\* resume, the play call ending every way
ResumePlayback ==
    \E attempts \in AttemptScripts :
        \E answers \in RefreshAnswers(Unauthorized(attempts[1])) :
            \E p \in {client_resume(client, "Kitchen", now, "token", PlayDevices,
                                    attempts, answers)} :
                /\ client' = p.client
                /\ last' = PlayLast("resume", <<>>, "None", attempts,
                                    <<Succeeds>>, answers, p)
                /\ UNCHANGED <<now, hooks, plugin, play, bus, cb, events>>

\* play of a playlist URI handed over as a string, on a device the account
\* shows and on one it does not show
PlayPlaylist ==
    \E dev_id \in {"Kitchen", "Attic"}, attempts \in AttemptScripts :
        \E answers \in RefreshAnswers(Unauthorized(attempts[1])) :
            \E p \in {play_str(client, PlaylistP, dev_id, None, "None", now,
                               "token", PlayDevices, attempts, <<Succeeds>>,
                               answers)} :
                /\ client' = p.client
                /\ last' = [PlayLast("play_str", <<PlaylistP>>, "None",
                                     attempts, <<Succeeds>>, answers, p)
                                EXCEPT !.cells = <<dev_id>>]
                /\ UNCHANGED <<now, hooks, plugin, play, bus, cb, events>>

\* play of a track or album URI handed over as a string, with and without a
\* context URI, in a call the account does not answer with 401
PlayString ==
    \E uri \in {TrackUri("t1"), AlbumX}, context_uri \in {None, AlbumX},
       attempts \in {a \in AttemptScripts : Len(a) = 1} :
        \E answers \in RefreshAnswers(Unauthorized(attempts[1])) :
            \E p \in {play_str(client, uri, "Kitchen", context_uri, "None",
                               now, "token", PlayDevices, attempts, <<Succeeds>>,
                               answers)} :
                /\ client' = p.client
                /\ last' = PlayLast("play_string", <<uri>>, "None", attempts,
                                    <<Succeeds>>, answers, p)
                              @@ [context_uri |-> context_uri]
                /\ UNCHANGED <<now, hooks, plugin, play, bus, cb, events>>

\* time passes: half the assumed lifetime of a token, or a second more
TokenTick ==
    \E d \in {TokenLifetime \div 2, TokenLifetime \div 2 + 1} :
        /\ now + d <= MaxTokenTime
        /\ now' = now + d
        /\ UNCHANGED <<hooks, plugin, client, play, last, bus, cb, events>>

InitAuth ==
    /\ now = 0
    /\ hooks = HooksInit
    /\ \E gen \in {"legacy", "newer"} :
        /\ plugin = PluginInit(IF gen = "legacy" THEN "legacy" ELSE "audio")
        /\ client = AuthClient(gen, CredentialsInit)
    /\ play = PlayInit
    /\ last = [op |-> "init"]
    /\ bus = <<>>
    /\ cb = <<>>
    /\ events = <<>>

\* the credentials, the wrapped calls and the passing of time
NextAuth == GetToken \/ GetAccessToken \/ WrappedCall \/ TokenTick
SpecAuth == InitAuth /\ [][NextAuth]_vars

\* a client before its first use, or one whose credentials fetched a token
\* when they were constructed
InitStart ==
    /\ now = 0
    /\ hooks = HooksInit
    /\ \E gen \in {"legacy", "newer"} :
        /\ plugin = PluginInit(IF gen = "legacy" THEN "legacy" ELSE "audio")
        /\ client \in {AuthClient(gen, r.credentials) :
                          r \in {x \in {get_access_token(CredentialsInit, FALSE,
                                                         now, answers) :
                                            answers \in BrokerScripts} :
                                    x.exc = NoExc /\ x.value = "tokA"}}
                        \cup {[AuthClient(gen, CredentialsInit)
                                  EXCEPT !.spotify = FALSE]}
    /\ play = PlayInit
    /\ last = [op |-> "init"]
    /\ bus = <<>>
    /\ cb = <<>>
    /\ events = <<>>

\* play and resume of a connected client
NextStart ==
    PlayUris \/ PlayTrack \/ ResumePlayback \/ PlayPlaylist \/ PlayString
SpecStart == InitStart /\ [][NextStart]_vars

\* ------------------------------------------------------------ load_service
MaxBackends == 3
\* the 'type' of a backend entry ("None": the entry has none) and its
\* 'active' flag as the configuration file gives it ("absent": no such key)
BackendTypes == {"spotify", "ovos_spotify", "http", None}
ActiveFlags == {"absent", "True", "False", "None"}
BackendNames == <<"b1", "b2", "b3", "b4">>

\* base_config['backends']: the entries in the order of the mapping
Backends ==
    UNION {[1..n -> [type : BackendTypes, active : ActiveFlags]] :
              n \in 0..MaxBackends}

\* backends[b].get('active', True) as a condition
active(entry) == entry.active \in {"absent", "True"}

\* the types a loader takes: audio.py takes two, the legacy plugin one
accepted_types(gen) ==
    IF gen = "legacy" THEN {"spotify"} ELSE {"spotify", "ovos_spotify"}

\* load_service with the test of the active flag left out
load_service_all(gen, backends) ==
    With(SelectSeq([i \in 1..Len(backends) |->
                       [name |-> BackendNames[i], config |-> backends[i]]],
                   LAMBDA b : b.config.type \in accepted_types(gen)),
         LAMBDA services :
            [instances |-> [i \in 1..Len(services) |->
                               [gen |-> gen, name |-> services[i].name,
                                config |-> services[i].config]],
             warned |-> Len(services) = 0])

\* load_service(base_config, bus): the instances it returns and whether it
\* logged its warning
load_service(gen, backends) ==
    With(SelectSeq([i \in 1..Len(backends) |->
                       [name |-> BackendNames[i], config |-> backends[i]]],
                   LAMBDA b : /\ b.config.type \in accepted_types(gen)
                              /\ active(b.config)),
         LAMBDA services :
            [instances |-> [i \in 1..Len(services) |->
                               [gen |-> gen, name |-> services[i].name,
                                config |-> services[i].config]],
             warned |-> Len(services) = 0])

\* the host loads the services of its configuration, once, when it starts
LoadService ==
    /\ last.op = "init"
    /\ \E backends \in Backends :
        \E r \in {load_service(plugin.gen, backends)} :
            /\ last' = [op |-> "load_service", gen |-> plugin.gen,
                        backends |-> backends, instances |-> r.instances,
                        warned |-> r.warned]
            /\ UNCHANGED <<now, hooks, plugin, client, play, bus, cb, events>>

\* the loader of the legacy plugin and the loader of audio.py
InitLoader ==
    /\ now = 0
    /\ hooks = HooksInit
    /\ \E gen \in {"legacy", "audio"} :
        /\ plugin = PluginInit(gen)
        /\ client = ClientInit(IF gen = "legacy" THEN "legacy" ELSE "newer")
    /\ play = PlayInit
    /\ last = [op |-> "init"]
    /\ bus = <<>>
    /\ cb = <<>>
    /\ events = <<>>

NextLoader == LoadService
SpecLoader == InitLoader /\ [][NextLoader]_vars

\* ---------------------------------- the error path on the bridge (audio.py)
\* play() of audio.py caught a failure: self.on_track_error()
TrackError == Handled("track_error", None, on_track_error(W, ""))

\* the bridge under events, queries, the error path of its plugin and time
NextReset == NextBridge \/ TrackError
SpecReset == InitBridge /\ [][NextReset]_vars

\* --------------------------- SpotifyOCPAudioService: its own spotifyd hooks
ocp_on_spotify_start(w, track_id, position, t) ==
    [w EXCEPT !.plugin.last_sync_ts = t,
              !.plugin.now_playing = TrackUri(track_id),
              !.plugin.track_pos = position,
              !.bus = Append(@, MediaState(2))]

ocp_on_spotify_play(w, track_id, duration, position, t) ==
    With(plugin_on_track_start(
            [w EXCEPT !.plugin.last_sync_ts = t,
                      !.plugin.now_playing = TrackUri(track_id),
                      !.plugin.track_len = duration,
                      !.plugin.track_pos = position], t), LAMBDA w1 :
        [w1 EXCEPT !.bus = @ \o <<PlayerState(1), MediaState(6)>>])

ocp_on_spotify_stop(w) ==
    [w EXCEPT !.plugin.now_playing = None,
              !.plugin.track_len = 0,
              !.plugin.track_pos = 0,
              !.plugin.last_sync_ts = 0,
              !.bus = @ \o <<MediaState(1), PlayerState(0)>>]

ocp_on_spotify_pause(w, track_id, duration, position) ==
    [w EXCEPT !.plugin.now_playing = TrackUri(track_id),
              !.plugin.track_len = duration,
              !.plugin.track_pos = position,
              !.plugin.last_sync_ts = 0,
              !.bus = Append(@, PlayerState(2))]

ocp_on_spotify_load(w, track_id, position, t) ==
    [w EXCEPT !.plugin.last_sync_ts = t,
              !.plugin.track_pos = position,
              !.plugin.now_playing = TrackUri(track_id)]

ocp_on_spotify_preloading(w) == w

ocp_on_spotify_end(w) ==
    With(plugin_on_track_end([w EXCEPT !.plugin.track_pos = w.plugin.track_len]),
         LAMBDA w1 :
            [w1 EXCEPT !.bus = @ \o <<PlayerState(2), MediaState(7)>>])

ocp_on_spotify_change(w, track_id, t) ==
    [w EXCEPT !.plugin.now_playing = TrackUri(track_id),
              !.plugin.last_sync_ts = t,
              !.bus = @ \o <<PlayerState(2), MediaState(2)>>]

\* a spotifyd event on the bus, heard by the bridge of audio.py or by the
\* OCP plugin itself
Ocp == plugin.gen = "ocp"
InStart ==
    \E tid \in TrackIds, pos \in Positions :
        Observed("start", tid,
                 IF Ocp THEN ocp_on_spotify_start(W, tid, pos, now)
                 ELSE on_spotify_start(W, tid, pos, now))
InPlay ==
    \E tid \in TrackIds, dur \in Durations, pos \in Positions :
        Observed("play", tid,
                 IF Ocp THEN ocp_on_spotify_play(W, tid, dur, pos, now)
                 ELSE on_spotify_play(W, tid, dur, pos, now))
InStop ==
    Observed("stop", None,
             IF Ocp THEN ocp_on_spotify_stop(W) ELSE on_spotify_stop(W))
InPause ==
    \E tid \in TrackIds, dur \in Durations, pos \in Positions :
        Observed("pause", tid,
                 IF Ocp THEN ocp_on_spotify_pause(W, tid, dur, pos)
                 ELSE on_spotify_pause(W, tid, dur, pos))
InLoad ==
    \E tid \in TrackIds, pos \in Positions :
        Observed("load", tid,
                 IF Ocp THEN ocp_on_spotify_load(W, tid, pos, now)
                 ELSE on_spotify_load(W, tid, pos, now))
InPreloading ==
    Observed("preloading", None,
             IF Ocp THEN ocp_on_spotify_preloading(W)
             ELSE on_spotify_preloading(W))
InEnd ==
    Observed("end_of_track", None,
             IF Ocp THEN ocp_on_spotify_end(W) ELSE on_spotify_end(W))
InChange ==
    \E tid \in TrackIds :
        Observed("change", tid,
                 IF Ocp THEN ocp_on_spotify_change(W, tid, now)
                 ELSE on_spotify_change(W, tid, now))

\* a freshly constructed media plugin of either kind
InitInbound ==
    /\ now = 1
    /\ hooks = HooksInit
    /\ plugin \in {PluginInit("audio"), PluginInit("ocp")}
    /\ client = ClientInit("newer")
    /\ play = PlayInit
    /\ last = Last("init", None, World(HooksInit, plugin))
    /\ bus = <<>>
    /\ cb = <<>>
    /\ events = <<>>

NextInbound ==
    \/ InStart \/ InPlay \/ InStop \/ InPause
    \/ InLoad \/ InPreloading \/ InEnd \/ InChange
SpecInbound == InitInbound /\ [][NextInbound]_vars

\* ------------------------------------------- the OCP plugin's play call
\* the OCP plugin hears spotifyd report the end of the track
OcpEnd ==
    /\ Ocp
    /\ \E inp \in {CHOOSE i \in PollInputs : TRUE} :
        PluginStep("end_of_track", inp, ocp_on_spotify_end(S), TRUE,
                   Because("bridge_end", TRUE))

\* the OCP plugin hears spotifyd report that a track plays
OcpPlay ==
    /\ Ocp
    /\ \E pos \in {0, 1000} :
        \E inp \in {CHOOSE i \in PollInputs : TRUE} :
            PluginStep("play", inp, ocp_on_spotify_play(S, "t1", 2000, pos, now),
                       FALSE,
                       IF Playing THEN [play EXCEPT !.cause = "none"] ELSE play)

InitOcp ==
    /\ InitPlugin
    /\ plugin.gen = "ocp"

\* the play call of the OCP plugin, step by step, and its position and length
\* queries, while the host stops it, spotifyd reports and time passes
NextOcp ==
    \/ LoadTrack \/ PlayTrackStart \/ PlayCommand
    \/ WaitCheck \/ WaitPoll
    \/ OcpEnd \/ OcpPlay
    \/ PluginStop
    \/ GetTrackPosition \/ GetTrackLength
    \/ PluginTick
SpecOcp == InitOcp /\ [][NextOcp]_vars

\* ------------------------------------- the device list of a fresh client
\* the property devices read on a client that asks the broker itself
client_devices(c, t, answers, resp) ==
    With(spotify(c, t, answers), LAMBDA s :
        IF s.exc # NoExc
        THEN [client |-> s.client, value |-> <<>>, api |-> <<>>,
              exc |-> s.exc, calls |-> s.calls]
        ELSE With(devices(s.client, t, IF s.client.spotify THEN "token"
                                       ELSE "no token", resp), LAMBDA d :
            [client |-> d.client, value |-> d.value, api |-> d.api,
             exc |-> IF d.exc = "none" THEN NoExc ELSE Exc(d.exc, 0),
             calls |-> s.calls]))

\* a read of the device list, whatever the broker and the account answer
DevicesRead ==
    \E answers \in AnswersFor(~client.spotify), resp \in RespInputs :
        \E r \in {client_devices(client, now, answers, resp)} :
            /\ client' = r.client
            /\ last' = [op |-> "client_devices", t |-> now, pre |-> client,
                        answers |-> answers, ret |-> r.value, exc |-> r.exc,
                        api |-> r.api, calls |-> r.calls]
            /\ UNCHANGED <<now, hooks, plugin, play, bus, cb, events>>

\* a client of the newer package before its first use
InitDevices ==
    /\ now = 1
    /\ hooks = HooksInit
    /\ plugin = PluginInit("audio")
    /\ client = [AuthClient("newer", CredentialsInit) EXCEPT !.spotify = FALSE]
    /\ play = PlayInit
    /\ last = [op |-> "init"]
    /\ bus = <<>>
    /\ cb = <<>>
    /\ events = <<>>

NextDevices == DevicesRead \/ ClientTick
SpecDevices == InitDevices /\ [][NextDevices]_vars

\* ------------------------------------------------------------ supported_uris
\* supported_uris with the names compared without regard to case
supported_uris_casefold(p, c, t, creds, resp) ==
    With(devices(c, t, creds, resp), LAMBDA d :
        With(d.exc = "none" /\ \E i \in 1..Len(d.value) :
                Lower(d.value[i].name) = Lower(p.device_name), LAMBDA found :
            [client |-> d.client, devs |-> d.value, api |-> d.api, exc |-> d.exc,
             ret |-> IF found THEN <<"spotify">> ELSE <<>>,
             warned |-> d.exc = "none" /\ ~found]))

\* supported_uris of audio.py and of the OCP plugin: the names of
\* self.spotify.devices, "device_name not in names", the warning
supported_uris(p, c, t, creds, resp) ==
    With(devices(c, t, creds, resp), LAMBDA d :
        With(d.exc = "none" /\ \E i \in 1..Len(d.value) :
                d.value[i].name = p.device_name, LAMBDA found :
            [client |-> d.client, devs |-> d.value, api |-> d.api, exc |-> d.exc,
             ret |-> IF found THEN <<"spotify">> ELSE <<>>,
             warned |-> d.exc = "none" /\ ~found]))

\* what the account can answer to the device-list request of supported_uris:
\* also a device whose name differs from the configured one by case only
SupportedResponses ==
    IF client.spotify /\ ~CacheStale(client, now)
    THEN {[ok |-> TRUE, devices |-> client.device_list[1]]}
    ELSE AccountResponses
            \cup {[ok |-> TRUE,
                   devices |-> <<Dev("k", "kitchen", "Speaker", TRUE)>>]}

\* the host asks the plugin which URIs it takes
SupportedUris ==
    \E creds \in CredsInputs, resp \in SupportedResponses :
        \E r \in {supported_uris(plugin, client, now, creds, resp)} :
            /\ client' = r.client
            /\ last' = [op |-> "supported_uris", t |-> now,
                        name |-> plugin.device_name, devs |-> r.devs,
                        cached |-> client.spotify /\ ~CacheStale(client, now),
                        ret |-> r.ret, warned |-> r.warned, exc |-> r.exc]
            /\ UNCHANGED <<now, hooks, plugin, play, bus, cb, events>>

\* a media plugin of either kind
InitSupported ==
    /\ InitPlugin
    /\ plugin.gen \in {"audio", "ocp"}

NextSupported == SupportedUris \/ PluginTick
SpecSupported == InitSupported /\ [][NextSupported]_vars

\* ---------------------------------------------------------------- is_playing
\* the device ids handed to is_playing
PlayingDevices == {None, "a", "b", "zzz"}

\* is_playing called on its own: the broker answers a client that is not
\* connected yet, and the account answers the status request and the
\* device-list request, in every way
ClientIsPlaying ==
    \E dev \in PlayingDevices, creds \in BrokerInputs, status \in Statuses,
       resp \in DeviceResponses :
        \E r \in {is_playing(client, dev, creds, status, resp)} :
            /\ client' = r.client
            /\ last' = [op |-> "is_playing", device |-> dev, status |-> status,
                        resp |-> resp, creds |-> creds,
                        was_connected |-> client.spotify,
                        connected |-> r.client.spotify,
                        ret |-> r.value, exc |-> r.exc, api |-> r.api]
            /\ UNCHANGED <<now, hooks, plugin, play, bus, cb, events>>

NextPlaying == ClientIsPlaying
SpecPlaying == InitClient /\ [][NextPlaying]_vars

\* ------------------------------------------- the default device (legacy)
\* the first device of a list that satisfies P, None when none does
FirstDevice(devs, P(_)) ==
    IF \E i \in 1..Len(devs) : P(devs[i])
    THEN devs[CHOOSE i \in 1..Len(devs) :
                 /\ P(devs[i])
                 /\ \A j \in 1..(i - 1) : ~P(devs[j])].id
    ELSE None

\* the last device of a list that satisfies P, None when none does
LastDevice(devs, P(_)) ==
    IF \E i \in 1..Len(devs) : P(devs[i])
    THEN devs[CHOOSE i \in 1..Len(devs) :
                 /\ P(devs[i])
                 /\ \A j \in (i + 1)..Len(devs) : ~P(devs[j])].id
    ELSE None

\* what match_one answers to device_by_name: the best matching name and its
\* confidence in tenths
FuzzyMatches(devs) ==
    {[key |-> devs[i].name, confidence |-> c] : i \in 1..Len(devs), c \in {5, 6}}
        \cup {[key |-> None, confidence |-> 0]}

\* get_default_device, with device_by_name: the device of the id it returns.
\* device_by_name looks the matched name up in {d['name']: d for d in devices},
\* where of two devices of one name the later one stays.
\* No method of the client and no plugin calls it
get_default_device(devs, connected, playing, fuzzy) ==
    IF ~connected THEN None
    ELSE IF /\ Len(devs) > 0
            /\ playing
            /\ \E i \in 1..Len(devs) : devs[i].is_active
    THEN FirstDevice(devs, LAMBDA d : d.is_active)
    ELSE IF \E i \in 1..Len(devs) : ContainsOvos(devs[i].name)
    THEN FirstDevice(devs, LAMBDA d : ContainsOvos(d.name))
    ELSE IF \E i \in 1..Len(devs) : devs[i].type = "Speaker"
    THEN FirstDevice(devs, LAMBDA d : d.type = "Speaker")
    ELSE IF Len(devs) > 0 /\ fuzzy.confidence > 5
    THEN LastDevice(devs, LAMBDA d : d.name = fuzzy.key)
    ELSE None

\* the devices an account may show to a legacy client that names no device
Ovos(is_active) == Dev("e", "ovos-1", "Computer", is_active)
Laptop(is_active) == Dev("d", "speaker", "Computer", is_active)
\* a second device of the laptop's name
Desktop(is_active) == Dev("f", "speaker", "Computer", is_active)
DefaultLists ==
    {<<>>, <<Laptop(FALSE)>>, <<Laptop(FALSE), Kitchen(FALSE)>>,
     <<Laptop(FALSE), Ovos(FALSE)>>, <<Ovos(FALSE), Office(TRUE)>>,
     <<Kitchen(FALSE), Laptop(TRUE)>>, <<Laptop(TRUE), Office(TRUE)>>,
     <<Laptop(FALSE), Desktop(FALSE)>>}
DefaultResponses ==
    IF CacheStale(client, now)
    THEN {[ok |-> TRUE, devices |-> l] : l \in DefaultLists}
            \cup {[ok |-> FALSE, devices |-> <<>>]}
    ELSE {[ok |-> TRUE, devices |-> client.device_list[1]]}

\* a transport operation of the legacy client called without a device
DefaultTransport ==
    \E call \in {"pause_playback", "start_playback", "next_track",
                 "previous_track"},
       creds \in CredsInputs, resp \in DefaultResponses, ok \in BOOLEAN :
        ClientOp(call, None,
                 transport(client, call, None, None, now, creds, resp, ok))

NextDefault == DefaultTransport \/ ClientTick
SpecDefault == InitLegacyClient /\ [][NextDefault]_vars

\* ------------------------------------- queries of the legacy SpotifyClient
\* A confidence is a double. fuzzy_match, best_confidence and match_one answer
\* in whole hundredths here, and the integer Ulps * h + k stands for the double
\* that lies k units in the last place above the double nearest to h / 100:
\* 0.8 is 8000, and 0.7 + 0.1, the double next below 0.8, is 7999. The integers
\* are ordered as the doubles they stand for.
Ulps == 100
Hundredths(h) == Ulps * h

DIRECT_RESPONSE_CONFIDENCE == 8000
MATCH_CONFIDENCE == 5000
PLAYLIST_CONFIDENCE == 7000

\* x + 0.1 in doubles, x of h hundredths, h in 0..100: the sum is the double
\* nearest to (h + 10) / 100 but for the h listed, where it is the double next
\* above it (0.2 + 0.1 is 0.30000000000000004) or next below it (0.7 + 0.1 is
\* 0.7999999999999999)
PlusTenthAbove == {2, 5, 11, 14, 19, 20, 31, 32, 33, 34}
PlusTenthBelow == {24, 35, 36, 57, 58, 69, 70, 71, 82, 83}
\* x + 0.2 in doubles, likewise (0.01 + 0.2 is 0.21000000000000002)
PlusFifthAbove ==
    {1, 4, 9, 10, 21, 22, 23, 27, 28, 37, 38, 39, 40, 62, 63, 64, 65, 66, 67,
     68, 93}
PlusFifthBelow == {47, 48, 69, 70, 71, 72, 73}

\* a + b in doubles, a of whole hundredths in 0..1 and b one of 0, 0.1 and
\* 0.2, the bonuses the queries add
fadd(a, b) ==
    a + b + (CASE b = Hundredths(10) /\ a \div Ulps \in PlusTenthAbove -> 1
               [] b = Hundredths(10) /\ a \div Ulps \in PlusTenthBelow -> -1
               [] b = Hundredths(20) /\ a \div Ulps \in PlusFifthAbove -> 1
               [] b = Hundredths(20) /\ a \div Ulps \in PlusFifthBelow -> -1
               [] OTHER -> 0)

\* x - 0.1 in doubles, x of h hundredths, h in 0..100: how many units in the
\* last place the difference lies above the double nearest to (h - 10) / 100
\* (0.3 - 0.1 is 0.19999999999999998, 0.8 - 0.1 is 0.7000000000000001)
MinusTenthUlps ==
    [h \in 0..100 |->
        CASE h \in {14, 28, 34, 39, 40, 51, 52, 53, 54, 55, 56, 67, 68, 79,
                    80, 81, 92, 93} -> 1
          [] h \in {1, 4, 6, 8, 18, 21, 24, 29, 30, 35, 41, 42, 43, 44} -> -1
          [] h = 15 -> -2
          [] h \in {11, 12} -> -3
          [] h = 9 -> -5
          [] OTHER -> 0]

\* a - 0.1 in doubles, a of whole hundredths in 0..1
fsub_tenth(a) == a - Hundredths(10) + MinusTenthUlps[a \div Ulps]

\* a tuple (confidence, data) as the query methods return it; the confidence
\* is <<>> for None
Found(conf, type, item) ==
    [conf |-> <<conf>>, data |-> [type |-> type, item |-> item]]
\* NOTHING_FOUND = (None, 0.0), read as (confidence, data)
NOTHING_FOUND == [conf |-> <<>>, data |-> [type |-> "0.0", item |-> None]]

\* list.reverse()
Reverse(s) == [i \in 1..Len(s) |-> s[Len(s) + 1 - i]]

\* list.sort(key=...) and sorted(..., key=...): ascending and stable
SortBy(s, key(_)) ==
    [k \in 1..Len(s) |->
        s[CHOOSE i \in 1..Len(s) :
            k = 1 + Cardinality({j \in 1..Len(s) :
                                    \/ key(s[j]) < key(s[i])
                                    \/ key(s[j]) = key(s[i]) /\ j < i})]]

\* best_result with the list left in its order before it is sorted
best_result_unreversed(results) ==
    IF Len(results) = 0 THEN NOTHING_FOUND
    ELSE SortBy(results, LAMBDA x : x.conf[1])[Len(results)]

\* best_result(results)
best_result(results) ==
    IF Len(results) = 0 THEN NOTHING_FOUND
    ELSE SortBy(Reverse(results), LAMBDA x : x.conf[1])[Len(results)]

\* self.spotify.search(query, type): the property spotify connects a client
\* that is not connected yet; when the broker hands out no token
\* self._spotify stays None, and None has no attribute search
SearchCall(type) == [call |-> "search", device |-> None, arg |-> type]
spotify_search(c, creds, type) ==
    With(load_credentials(c, creds), LAMBDA l :
        IF l.exc # "none" THEN Result(l.client, None, <<>>, Exc(l.exc, 0))
        ELSE IF l.client.spotify
        THEN Result(l.client, None, <<SearchCall(type)>>, NoExc)
        ELSE Result(l.client, None, <<>>, Exc("AttributeError", 0)))

\* song, artist = song.split(' by '), by the number of times the phrase holds
\* ' by ': with more than one there are too many values to unpack
Unpacks(by) == by < 2

\* get_best_user_playlist: a read of self.playlists, and when the account has
\* playlists, user is <<m>>, m what match_one answers over them; the value is
\* the tuple (key, confidence)
get_best_user_playlist(c, t, creds, resp, user) ==
    With(playlists(c, t, creds, resp), LAMBDA p :
        IF p.exc # "none" THEN Result(p.client, None, p.api, Exc(p.exc, 0))
        ELSE IF /\ DOMAIN p.value # {}
                /\ user # <<>>
                /\ user[1].confidence > PLAYLIST_CONFIDENCE
        THEN Result(p.client,
                    [key |-> user[1].key, confidence |-> user[1].confidence],
                    p.api, NoExc)
        ELSE Result(p.client, [key |-> None, confidence |-> 0], p.api, NoExc))

\* query_artist: artist is <<>> when the search finds nothing, else <<s>>, s
\* the fuzzy_match of the first name found
query_artist(c, creds, artist, bonus) ==
    With(spotify_search(c, creds, "artist"), LAMBDA s :
        IF s.exc # NoExc THEN s
        ELSE IF artist = <<>> THEN [s EXCEPT !.value = NOTHING_FOUND]
        ELSE [s EXCEPT !.value =
                Found(Min(fadd(artist[1], fadd(bonus, Hundredths(10))),
                          Hundredths(100)),
                      "artist", None)])

\* query_song returning the top confidence of the search with the bonus
query_song_top_confidence(c, creds, tracks, by, bonus) ==
    IF ~Unpacks(by) THEN Result(c, None, <<>>, Exc("ValueError", 0))
    ELSE With(spotify_search(c, creds, "track"), LAMBDA s :
        IF s.exc # NoExc THEN s
        ELSE IF Len(tracks) = 0 THEN [s EXCEPT !.value = NOTHING_FOUND]
        ELSE With(Reverse(SortBy(tracks, LAMBDA x : x.conf)), LAMBDA best_first :
            With(SelectSeq(best_first,
                           LAMBDA x : x.conf > fsub_tenth(best_first[1].conf)),
                 LAMBDA similar :
                With(SortBy(similar, LAMBDA x : x.popularity), LAMBDA ranked :
                    [s EXCEPT !.value =
                        Found(fadd(best_first[1].conf, bonus), "track",
                              ranked[Len(ranked)].id)]))))

\* query_song: tracks are the items of the search, each with the
\* best_confidence of its name and its popularity; the phrase is unpacked
\* before the search
query_song(c, creds, tracks, by, bonus) ==
    IF ~Unpacks(by) THEN Result(c, None, <<>>, Exc("ValueError", 0))
    ELSE With(spotify_search(c, creds, "track"), LAMBDA s :
        IF s.exc # NoExc THEN s
        ELSE IF Len(tracks) = 0 THEN [s EXCEPT !.value = NOTHING_FOUND]
        ELSE With(Reverse(SortBy(tracks, LAMBDA x : x.conf)), LAMBDA best_first :
            With(SelectSeq(best_first,
                           LAMBDA x : x.conf > fsub_tenth(best_first[1].conf)),
                 LAMBDA similar :
                With(SortBy(similar, LAMBDA x : x.popularity), LAMBDA ranked :
                    [s EXCEPT !.value =
                        Found(fadd(ranked[Len(ranked)].conf, bonus), "track",
                              ranked[Len(ranked)].id)]))))

\* query_album: album is <<>> or <<s>>, s the best_confidence of the first
\* name found; a phrase that holds ' by ' once adds 0.1 to the bonus
query_album(c, creds, album, by, bonus) ==
    IF ~Unpacks(by) THEN Result(c, None, <<>>, Exc("ValueError", 0))
    ELSE With(spotify_search(c, creds, "album"), LAMBDA s :
        IF s.exc # NoExc THEN s
        ELSE IF album = <<>> THEN [s EXCEPT !.value = NOTHING_FOUND]
        ELSE [s EXCEPT !.value =
                Found(Min(fadd(album[1],
                               IF by = 1 THEN fadd(bonus, Hundredths(10))
                               ELSE bonus),
                          Hundredths(100)),
                      "album", None)])

\* get_best_public_playlist: public is <<>> or <<s>>, s the fuzzy_match of the
\* first name found
get_best_public_playlist(c, creds, public) ==
    With(spotify_search(c, creds, "playlist"), LAMBDA s :
        IF s.exc # NoExc THEN s
        ELSE IF public # <<>> /\ public[1] > PLAYLIST_CONFIDENCE
        THEN [s EXCEPT !.value = Found(public[1], "playlist", "public")]
        ELSE [s EXCEPT !.value = NOTHING_FOUND])

\* conf and conf > threshold
Exceeds(conf, threshold) ==
    conf # <<>> /\ conf[1] # 0 /\ conf[1] > threshold

\* the first stage of generic_query as a tuple (conf, data); data stays {}
\* when no playlist matched. The second read of self.playlists, for the
\* playlist matched, is served by the cache the first one filled
user_playlist_stage(c, t, creds, resp, user) ==
    With(get_best_user_playlist(c, t, creds, resp, user), LAMBDA m :
        IF m.exc # NoExc THEN m
        ELSE [m EXCEPT !.value =
                Found(m.value.confidence,
                      IF m.value.key # None THEN "playlist" ELSE "{}",
                      m.value.key)])

\* what each of the five stages of generic_query does for the phrase q once
\* it is reached, in the order of the code. creds[1] says whether the broker
\* hands out a token to the read of self.playlists, creds[2] whether it does
\* to the searches that follow
Stages(c, t, creds, resp, q) ==
    With(user_playlist_stage(c, t, creds[1], resp, q.user), LAMBDA s1 :
        With(query_artist(s1.client, creds[2], q.artist, 0), LAMBDA s2 :
            <<s1, s2,
              query_song(s2.client, creds[2], q.tracks, q.by, 0),
              query_album(s2.client, creds[2], q.album, q.by, 0),
              get_best_public_playlist(s2.client, creds[2], q.public)>>))

\* generic_query(phrase): the stages run one after the other until one raises
\* or answers directly; value is the tuple returned, api the calls issued
generic_query(c, t, creds, resp, q) ==
    With(Stages(c, t, creds, resp, q), LAMBDA stages :
        With({i \in 1..Len(stages) :
                \/ stages[i].exc # NoExc
                \/ Exceeds(stages[i].value.conf, DIRECT_RESPONSE_CONFIDENCE)},
             LAMBDA ends :
            With(IF ends = {} THEN Len(stages)
                 ELSE CHOOSE i \in ends : \A j \in ends : i <= j, LAMBDA ran :
                Result(stages[ran].client,
                       IF ends = {}
                       THEN best_result(SelectSeq(
                                [i \in 1..Len(stages) |-> stages[i].value],
                                LAMBDA r : Exceeds(r.conf, MATCH_CONFIDENCE)))
                       ELSE stages[ran].value,
                       Concat([i \in 1..ran |-> stages[i].api]),
                       stages[ran].exc))))

\* what the account and the catalog answer to the lookups of one phrase
Track(id, conf, popularity) ==
    [id |-> id, conf |-> conf, popularity |-> popularity]
\* what match_one answers over the playlists d that self.playlists returns
UserMatches(d) ==
    IF DOMAIN d = {} THEN {<<>>}
    ELSE {<<[key |-> k, confidence |-> Hundredths(s)]>> :
            k \in DOMAIN d, s \in {70, 80, 81}}
Phrases(d) ==
    [user : UserMatches(d),
     artist : {<<>>} \cup {<<Hundredths(s)>> : s \in {40, 70, 71}},
     tracks : {<<>>} \cup {<<Track("t1", Hundredths(s), 1)>> :
                              s \in {50, 80, 81}},
     album : {<<>>} \cup {<<Hundredths(s)>> : s \in {50, 70, 81}},
     by : 0..2,
     public : {<<>>} \cup {<<Hundredths(s)>> : s \in {70, 80, 81}}]

\* whether the broker hands out a token, to the first connection attempt of a
\* call and to the one after it
Brokers == {<<a, b>> : a \in CredsInputs, b \in CredsInputs}

\* the search types of the search calls among the calls api
Searches(api) ==
    With(SelectSeq(api, LAMBDA a : a.call = "search"), LAMBDA s :
        [i \in 1..Len(s) |-> s[i].arg])

\* what a stage returned, or the exception it raised
StageOutcome(s) == IF s.exc = NoExc THEN s.value ELSE s.exc

\* what GET /me/playlists answers to a read of self.playlists by a query
QueryAccounts == {resp \in PlaylistInputs : Len(resp.items) < MaxPlaylists}

\* a phrase is looked up by a client before its first use or after a read of
\* its playlists
GenericQuery ==
    /\ last.op \in {"init", "playlists"}
    /\ \E creds \in Brokers, resp \in QueryAccounts :
        \E d \in {playlists(client, now, creds[1], resp).value} :
            \E q \in Phrases(d) :
                \E r \in {generic_query(client, now, creds, resp, q)} :
                    /\ client' = r.client
                    /\ last' = [op |-> "generic_query", q |-> q,
                                stages |-> [i \in 1..5 |->
                                    StageOutcome(Stages(client, now, creds,
                                                        resp, q)[i])],
                                ret |-> r.value, exc |-> r.exc,
                                searches |-> Searches(r.api)]
                    /\ UNCHANGED <<now, hooks, plugin, play, bus, cb, events>>

\* the playlists are read once before a phrase is looked up
PlaylistsFirst == last.op = "init" /\ ClientPlaylists

NextQuery == PlaylistsFirst \/ GenericQuery
SpecQuery == InitLegacyClient /\ [][NextQuery]_vars

\* ------------------------------------------------------- autoconfigure.main
MaxFound == 2

\* the names of the devices an account may show; two devices may share one
DeviceNames == {"Kitchen", "Office", "my-speaker"}
FoundNames == UNION {[1..n -> DeviceNames] : n \in 0..MaxFound}

\* d.replace("-", " ")
Alias(d) == IF d = "my-speaker" THEN "my speaker" ELSE d

\* what the operator types at the prompt: <<n>> for a number, <<>> for
\* anything int() does not take
OperatorInputs == {<<>>} \cup {<<n>> : n \in -1..MaxFound}

\* the entries of the two sections of mycroft.conf the tool writes to
AudioEntry(d) ==
    [key |-> "spotify-" \o d, type |-> "ovos_spotify", identifier |-> d,
     active |-> TRUE]
MediaEntry(d) ==
    [key |-> "spotify-" \o d, module |-> "ovos-media-audio-plugin-spotify",
     identifier |-> d, aliases |-> <<Alias(d)>>, active |-> TRUE]

\* the user configuration before the tool runs: a section is <<>> when the
\* file has none, else <<entries>>
UserConfigs ==
    {[Audio |-> <<>>, media |-> <<>>],
     [Audio |-> <<{}>>, media |-> <<>>],
     [Audio |-> <<{AudioEntry("Kitchen")}>>, media |-> <<{MediaEntry("Office")}>>]}

\* section[key] = entry
Put(section, entry) ==
    {e \in (IF section = <<>> THEN {} ELSE section[1]) : e.key # entry.key}
        \cup {entry}

\* the loop of main over the devices, and cfg.store()
RECURSIVE configure(_, _, _, _)
configure(cfg, names, idx, default) ==
    IF idx >= Len(names) THEN cfg
    ELSE configure([Audio |-> IF idx = default
                              THEN <<Put(cfg.Audio, AudioEntry(names[idx + 1]))>>
                              ELSE cfg.Audio,
                    media |-> <<Put(cfg.media, MediaEntry(names[idx + 1]))>>],
                   names, idx + 1, default)

\* main(): the devices found, the default, the entries written and stored,
\* the two sections printed; status is the exit status of the process
main(names, input, cfg) ==
    IF Len(names) = 0
    THEN [cfg |-> cfg, stored |-> FALSE, prompted |-> FALSE, status |-> 1,
          exc |-> "SystemExit"]
    ELSE IF Len(names) # 1 /\ input = <<>>
    THEN [cfg |-> cfg, stored |-> FALSE, prompted |-> TRUE, status |-> 1,
          exc |-> "ValueError"]
    ELSE With(configure(cfg, names, 0,
                        IF Len(names) = 1 THEN 0 ELSE input[1]), LAMBDA c :
            [cfg |-> c, stored |-> TRUE, prompted |-> Len(names) # 1,
             status |-> IF c.Audio = <<>> THEN 1 ELSE 0,
             exc |-> IF c.Audio = <<>> THEN "KeyError" ELSE "none"])

\* the operator runs the tool once
Autoconfigure ==
    /\ last.op = "init"
    /\ \E names \in FoundNames, cfg \in UserConfigs :
        \E input \in IF Len(names) > 1 THEN OperatorInputs ELSE {<<>>} :
            \E r \in {main(names, input, cfg)} :
                /\ last' = [op |-> "autoconfigure", names |-> names,
                            input |-> input, before |-> cfg, cfg |-> r.cfg,
                            stored |-> r.stored, prompted |-> r.prompted,
                            status |-> r.status, exc |-> r.exc]
                /\ UNCHANGED <<now, hooks, plugin, client, play, bus, cb,
                               events>>

NextAutoconfigure == Autoconfigure
SpecAutoconfigure == InitClient /\ [][NextAutoconfigure]_vars

\* ------------------------------------------ the queue of the legacy plugin
MaxQueue == 3

\* SpotifyAudioService: the plugin with self.tracks, a list whose entries are
\* URIs or what play of the client has left in their place
QueuePlugin(tracks) == PluginInit("legacy") @@ [tracks |-> tracks]

\* clear_list: self.tracks = []
clear_list(p) == [p EXCEPT !.tracks = <<>>]

\* add_list: self.tracks += tracks
add_list(p, tracks) ==
    [p EXCEPT !.tracks = @ \o [i \in 1..Len(tracks) |-> Plain(tracks[i])]]

\* one round of the loop of play over an entry of self.tracks: a list that an
\* earlier play has put there has no startswith
expand_entry(cell, connected) ==
    IF cell.nested THEN Expanded(cell, <<>>, Exc("AttributeError", 0))
    ELSE expand(cell.uris[1], connected)

\* the loop of play over self.tracks, which assigns to the entries of the
\* list it was handed
expand_entries(cells, connected) ==
    With([i \in 1..Len(cells) |-> expand_entry(cells[i], connected)], LAMBDA e :
        With({i \in 1..Len(cells) : e[i].exc # NoExc}, LAMBDA bad :
            With(IF bad = {} THEN Len(cells) + 1
                 ELSE CHOOSE i \in bad : \A j \in bad : i <= j, LAMBDA stop_at :
                Expansion([i \in 1..Len(cells) |->
                              IF i < stop_at THEN e[i].cell ELSE cells[i]],
                          Concat([i \in 1..Min(stop_at, Len(cells)) |-> e[i].api]),
                          IF bad = {} THEN NoExc ELSE e[stop_at].exc))))

\* play of the plugin: self.spotify.play(self.tracks, dev_id=self.device,
\* repeat=repeat); the list handed over is self.tracks itself, and cells of the
\* outcome is that list after the call
audio_service_play(p, c, repeat, t, creds, resp, attempts, rattempts, answers) ==
    With(validate_device_id(spotify(c, t, CredsAnswers(creds)).client,
                            p.device_name, t, creds, resp), LAMBDA v :
        IF v.exc # "none"
        THEN Played(v.client, p.tracks, v.api, Exc(v.exc, 0), 0, 0)
        ELSE With(expand_entries(p.tracks, v.client.spotify), LAMBDA x :
            IF x.exc # NoExc
            THEN Played(v.client, x.cells, v.api \o x.api, x.exc, 0, 0)
            ELSE With(play_try(v.client, x.cells, v.api \o x.api, v.value,
                               <<flatten_list(x.cells)>>, None, repeat, t,
                               attempts, rattempts, answers), LAMBDA r :
                    [r EXCEPT !.exc = play_except(@)])))

\* the record kept of a queue operation: the lists enqueued since the last
\* clear_list, concatenated, and what the operation sent and raised
QueueLast(op, enqueued, before, api, exc, dev_id) ==
    [op |-> op, enqueued |-> enqueued, before |-> before, api |-> api,
     exc |-> exc, dev_id |-> dev_id]

ClearList ==
    /\ plugin' = clear_list(plugin)
    /\ last' = QueueLast("clear_list", <<>>, plugin.tracks, <<>>, NoExc, None)
    /\ UNCHANGED <<now, hooks, client, play, bus, cb, events>>

AddList ==
    \E tracks \in UriLists :
        /\ Len(last.enqueued) + Len(tracks) <= MaxQueue
        /\ plugin' = add_list(plugin, tracks)
        /\ last' = QueueLast("add_list", last.enqueued \o tracks,
                             plugin.tracks, <<>>, NoExc, None)
        /\ UNCHANGED <<now, hooks, client, play, bus, cb, events>>

\* maybe_launch_librespot of the plugin
QueueLaunchLibrespot ==
    /\ plugin' = maybe_launch_librespot(plugin)
    /\ last' = QueueLast("maybe_launch_librespot", last.enqueued,
                         plugin.tracks, <<>>, NoExc, None)
    /\ UNCHANGED <<now, hooks, client, play, bus, cb, events>>

\* the account's answer to a device-list request made by play of the plugin
QueueDevices ==
    IF CacheStale(client, now)
    THEN {[ok |-> TRUE, devices |-> l] :
            l \in {<<Kitchen(TRUE)>>, <<Kitchen(TRUE), Librespot(FALSE)>>}}
    ELSE {[ok |-> TRUE, devices |-> client.device_list[1]]}

\* play of the plugin, every Web API call succeeding
QueuePlay ==
    \E repeat \in {"False", "True"}, resp \in QueueDevices :
        \E r \in {audio_service_play(plugin, client, repeat, now, "token",
                                     resp, <<Succeeds>>, <<Succeeds>>,
                                     <<BrokerAnswer("empty", 0, None, <<>>)>>)} :
            /\ plugin' = [plugin EXCEPT !.tracks = r.cells]
            /\ client' = r.client
            /\ last' = QueueLast("play", last.enqueued, plugin.tracks,
                                 Requests(r.api), r.exc, r.client.dev_id)
            /\ UNCHANGED <<now, hooks, play, bus, cb, events>>

\* the plugin as constructed (self.tracks = []) over a connected client
InitQueue ==
    /\ now = 0
    /\ hooks = HooksInit
    /\ plugin = QueuePlugin(<<>>)
    /\ client \in {AuthClient("legacy", r.credentials) :
                      r \in {x \in {get_access_token(CredentialsInit, FALSE,
                                                     now, answers) :
                                        answers \in BrokerScripts} :
                                x.exc = NoExc /\ x.value = "tokA"}}
    /\ play = PlayInit
    /\ last = QueueLast("init", <<>>, <<>>, <<>>, NoExc, None)
    /\ bus = <<>>
    /\ cb = <<>>
    /\ events = <<>>

NextQueue == ClearList \/ AddList \/ QueuePlay \/ QueueLaunchLibrespot
SpecQueue == InitQueue /\ [][NextQueue]_vars

\* --------------------------------------------- the bridge after a pause
\* the lengths a pause event may carry: none, one below a position, one above
PauseDurations == {0, 500} \cup Durations

\* what is remembered of the last pause event while no later event has
\* assigned the sync timestamp: its payload, when it came, and whether an
\* end-of-track event has come since
PauseWindow(position, duration, at, ended) ==
    [position |-> position, duration |-> duration, at |-> at, ended |-> ended]

\* a handler run, with the pause window it leaves
Windowed(name, ret, w, window) ==
    /\ hooks' = w.hooks
    /\ plugin' = w.plugin
    /\ last' = Last(name, ret, w)
    /\ events' = window
    /\ UNCHANGED <<now, client, play, bus, cb>>

PausedStart ==
    \E tid \in TrackIds, pos \in Positions :
        Windowed("start", None, on_spotify_start(W, tid, pos, now), <<>>)
PausedPlay ==
    \E tid \in TrackIds, dur \in Durations, pos \in Positions :
        Windowed("play", None, on_spotify_play(W, tid, dur, pos, now), <<>>)
PausedStop == Windowed("stop", None, on_spotify_stop(W), <<>>)
PausedPause ==
    \E tid \in TrackIds, dur \in PauseDurations, pos \in Positions :
        Windowed("pause", None, on_spotify_pause(W, tid, dur, pos),
                 <<PauseWindow(pos, dur, now, FALSE)>>)
PausedLoad ==
    \E tid \in TrackIds, pos \in Positions :
        Windowed("load", None, on_spotify_load(W, tid, pos, now), <<>>)
PausedPreloading ==
    Windowed("preloading", None, on_spotify_preloading(W), events)
PausedEnd ==
    Windowed("end_of_track", None, on_spotify_end(W),
             [i \in 1..Len(events) |-> [events[i] EXCEPT !.ended = TRUE]])
PausedChange ==
    \E tid \in TrackIds :
        Windowed("change", None, on_spotify_change(W, tid, now), <<>>)
PausedPreload ==
    \E tid \in TrackIds :
        Windowed("preload_uri", None,
                 [W EXCEPT !.hooks = preload_uri(hooks, TrackUri(tid), now)],
                 <<>>)
PausedReset ==
    Windowed("reset_metadata", None,
             [W EXCEPT !.hooks = reset_metadata(hooks)], <<>>)
PausedPosition ==
    \E r \in {get_track_position(hooks, now)} :
        Windowed("get_track_position", r.value, [W EXCEPT !.hooks = r.hooks],
                 events)
PausedLength ==
    \E r \in {get_track_length(hooks, now)} :
        Windowed("get_track_length", r.value, [W EXCEPT !.hooks = r.hooks],
                 events)

\* the bridge under events, queries and the passing of time, the pause window
\* kept in events
NextPaused ==
    \/ PausedStart \/ PausedPlay \/ PausedStop \/ PausedPause
    \/ PausedLoad \/ PausedPreloading \/ PausedEnd \/ PausedChange
    \/ PausedPreload \/ PausedReset \/ PausedPosition \/ PausedLength
    \/ Tick
SpecPaused == InitBridge /\ [][NextPaused]_vars

\* ------------------------------------------------------------ best_result
MaxResults == 3

\* the result tuples handed to best_result
ResultPool ==
    {Found(Hundredths(conf), "track", item) :
        conf \in {60, 90}, item \in {"x", "y", "z"}}
ResultLists == UNION {[1..n -> ResultPool] : n \in 0..MaxResults}

\* best_result applied to a list of result tuples
BestResult ==
    /\ last.op = "init"
    /\ \E results \in ResultLists :
        /\ last' = [op |-> "best_result", results |-> results,
                    ret |-> best_result(results)]
        /\ UNCHANGED <<now, hooks, plugin, client, play, bus, cb, events>>

NextBest == BestResult
SpecBest == InitLegacyClient /\ [][NextBest]_vars

\* -------------------------------------------------------------- query_song
MaxTracks == 2

\* the items a track search may answer, each with the best_confidence of its
\* name against the phrase
SongPool ==
    {Track(id, Hundredths(conf), popularity) :
        id \in {"a", "b"}, conf \in {20, 30, 80, 85, 90},
        popularity \in {10, 90}}
SongLists == UNION {[1..n -> SongPool] : n \in 0..MaxTracks}

\* query_song of a client before its first use, for a phrase that holds ' by '
\* by times and a track search that answers tracks
QuerySong ==
    /\ last.op = "init"
    /\ \E creds \in CredsInputs, tracks \in SongLists, by \in 0..2,
          bonus \in {0, Hundredths(10)} :
        \E r \in {query_song(client, creds, tracks, by, bonus)} :
            /\ client' = r.client
            /\ last' = [op |-> "query_song", tracks |-> tracks, by |-> by,
                        bonus |-> bonus, ret |-> r.value, exc |-> r.exc,
                        searches |-> Searches(r.api)]
            /\ UNCHANGED <<now, hooks, plugin, play, bus, cb, events>>

NextSong == QuerySong
SpecSong == InitLegacyClient /\ [][NextSong]_vars

\* ---------------------------------- two callers of the devices property
MaxRaceTime == 62

\* what the account answers to the device-list requests of the callers: whole
\* lists that share no element, and the empty list
RaceLists ==
    {<<>>, <<Kitchen(TRUE), Office(FALSE)>>, <<Kitchen(FALSE), Office(TRUE)>>}
CachedList == <<Named(TRUE)>>

\* a caller inside the property: the statement it stands before, its local
\* now, and the list it has been handed back (<<>> while it has none)
Caller(pc, t, ret) == [pc |-> pc, t |-> t, ret |-> ret]

\* self.__device_list = ... with the list extended in place instead
store_device_list_extending(c, devs) ==
    [c EXCEPT !.device_list =
                  <<(IF @ = <<>> THEN <<>> ELSE @[1]) \o devs>>]

\* self.__device_list = self.spotify.get_devices(): the assignment
store_device_list(c, devs) == [c EXCEPT !.device_list = <<devs>>]

\* a step of caller k that leaves it as next
RaceStep(op, k, next) ==
    /\ events' = [events EXCEPT ![k] = next]
    /\ last' = [op |-> op, caller |-> k]

\* if not self.spotify; now = time.time()
RaceBegin ==
    \E k \in 1..2 :
        /\ events[k].pc = "idle"
        /\ RaceStep("begin", k, Caller("check_list", now, <<>>))
        /\ UNCHANGED <<now, hooks, plugin, client, play, bus, cb>>

\* not self.__device_list
RaceCheckList ==
    \E k \in 1..2 :
        /\ events[k].pc = "check_list"
        /\ RaceStep("check_list", k,
                    [events[k] EXCEPT !.pc = IF NoDeviceList(client) THEN "fetch"
                                             ELSE "check_stamp"])
        /\ UNCHANGED <<now, hooks, plugin, client, play, bus, cb>>

\* now - self.__devices_fetched > 60
RaceCheckStamp ==
    \E k \in 1..2 :
        /\ events[k].pc = "check_stamp"
        /\ RaceStep("check_stamp", k,
                    [events[k] EXCEPT
                        !.pc = IF events[k].t - client.devices_fetched > DevicesTTL
                               THEN "fetch" ELSE "return"])
        /\ UNCHANGED <<now, hooks, plugin, client, play, bus, cb>>

\* self.spotify.get_devices(): the request is answered with a whole list,
\* which the caller holds until it assigns it; or the request fails
RaceFetch ==
    \E k \in 1..2 :
        /\ events[k].pc = "fetch"
        /\ \/ \E devs \in RaceLists :
                /\ RaceStep("fetch", k, [events[k] EXCEPT !.pc = "store",
                                                          !.ret = <<devs>>])
                /\ bus' = Append(bus, devs)
           \/ /\ RaceStep("fetch", k, [events[k] EXCEPT !.pc = "raised"])
              /\ bus' = bus
        /\ UNCHANGED <<now, hooks, plugin, client, play, cb>>

\* self.__device_list = <the answer>
RaceStore ==
    \E k \in 1..2 :
        /\ events[k].pc = "store"
        /\ client' = store_device_list(client, events[k].ret[1])
        /\ RaceStep("store", k, [events[k] EXCEPT !.pc = "stamp", !.ret = <<>>])
        /\ UNCHANGED <<now, hooks, plugin, play, bus, cb>>

\* self.__devices_fetched = now
RaceStamp ==
    \E k \in 1..2 :
        /\ events[k].pc = "stamp"
        /\ client' = [client EXCEPT !.devices_fetched = events[k].t]
        /\ RaceStep("stamp", k, [events[k] EXCEPT !.pc = "return"])
        /\ UNCHANGED <<now, hooks, plugin, play, bus, cb>>

\* return self.__device_list
RaceReturn ==
    \E k \in 1..2 :
        /\ events[k].pc = "return"
        /\ RaceStep("return", k, [events[k] EXCEPT !.pc = "returned",
                                                   !.ret = client.device_list])
        /\ UNCHANGED <<now, hooks, plugin, client, play, bus, cb>>

RaceTick ==
    /\ now < MaxRaceTime
    /\ now' = now + 1
    /\ UNCHANGED <<hooks, plugin, client, play, last, bus, cb, events>>

\* a connected client whose cache is empty, or holds a list fetched sixty or
\* sixty-one seconds ago, and two callers about to read its devices
InitRace ==
    /\ now = MaxRaceTime - 1
    /\ hooks = HooksInit
    /\ plugin = PluginInit("audio")
    /\ \E cached \in {<<>>, <<CachedList>>}, fetched \in {0, 1} :
        /\ cached = <<>> => fetched = 0
        /\ client = [ClientInit("newer") EXCEPT !.spotify = TRUE,
                                                !.device_list = cached,
                                                !.devices_fetched = fetched]
    /\ play = PlayInit
    /\ last = [op |-> "init", caller |-> 0]
    /\ bus = <<>>
    /\ cb = <<>>
    /\ events = <<Caller("idle", 0, <<>>), Caller("idle", 0, <<>>)>>

NextRace ==
    \/ RaceBegin \/ RaceCheckList \/ RaceCheckStamp \/ RaceFetch
    \/ RaceStore \/ RaceStamp \/ RaceReturn \/ RaceTick
SpecRace == InitRace /\ [][NextRace]_vars

\* ------------------------------------------- the wait loop of play, forever
\* the clock of this specification is read up to MaxWaitTime; when the sleep
\* of the loop would pass it, the origin of time is moved first
MaxWaitTime == 3

Blocked == play.pc \in {"wait", "sleep"}

\* _wait_until_finished: time.sleep(2)
WaitSleep ==
    /\ play.pc = "sleep"
    /\ ~play.slept
    /\ now + 2 <= MaxWaitTime
    /\ now' = now + 2
    /\ play' = [play EXCEPT !.slept = TRUE]
    /\ UNCHANGED <<hooks, plugin, client, last, bus, cb, events>>

\* a time kept for what it is compared with: the sync timestamp of the plugin
\* (audio.py reads it only in "self._last_sync_ts > 0") stays set when the
\* origin moves by d
Rebased(ts, d) == IF ts > 0 THEN Max(ts - d, 1) ELSE ts

\* the furthest position, in milliseconds, that a track of unknown length is
\* followed to
MaxElapsed == 4000

\* the position of the bridge h at time t can be carried over a move of the
\* origin: no time is added to it (no sync timestamp), or every position past
\* the known length of the track is the length to every query, or the
\* position is within MaxElapsed
Followed(h, t) ==
    \/ h.last_sync_ts = 0
    \/ h.track_len # 0
    \/ ExtrapolatedPos(h, t) <= MaxElapsed

\* the bridge at time t when the origin moves by d: the time that passed since
\* the sync is added to the position and the sync timestamp is the new reading
\* of the clock, so that a position query answers after the move what it
\* answers without it
RebasedHooks(h, t, d) ==
    IF h.last_sync_ts = 0 THEN h
    ELSE [h EXCEPT !.last_sync_ts = t - d,
                   !.track_pos =
                       IF h.track_len # 0
                       THEN Min(ExtrapolatedPos(h, t),
                                Max(h.track_len, h.track_pos))
                       ELSE ExtrapolatedPos(h, t)]

\* the time of the last fetch of the device list is read only in
\* "now - self.__devices_fetched > 60": it moves with the origin, and every
\* age above the lifetime of the cache is the same age to that test
RebasedFetch(ts, d) == Max(ts - d, 1 - (DevicesTTL + 1))

\* the origin of time moves so that the clock reads 1 again: no statement of
\* the program runs. What the program reads of its times is kept: whether the
\* plugin's sync timestamp is set, the age of the device cache up to its
\* lifetime, and the position that the bridge extrapolates. The position of a
\* track of unknown length grows with the time for as long as no event comes:
\* past MaxElapsed the origin is not moved and the clock goes no further
Rebase ==
    /\ now + 2 > MaxWaitTime
    /\ Followed(hooks, now)
    /\ \E d \in {now - 1} :
        /\ now' = now - d
        /\ plugin' = [plugin EXCEPT !.last_sync_ts = Rebased(@, d)]
        /\ hooks' = RebasedHooks(hooks, now, d)
        /\ client' = [client EXCEPT !.devices_fetched = RebasedFetch(@, d)]
        /\ play' = [play EXCEPT !.issued = Rebased(@, d)]
        /\ last' = IF "t" \in DOMAIN last
                   THEN [last EXCEPT !.t = Rebased(@, d)] ELSE last
    /\ UNCHANGED <<bus, cb, events>>

\* pause of the plugin while the account plays on the target device and the
\* pause call succeeds
PausePlaying ==
    \E inp \in {i \in PlayingInputs :
                    /\ i.creds = "token"
                    /\ i.status = "playing"
                    /\ i.resp = [ok |-> TRUE, devices |-> <<Kitchen(TRUE)>>]
                    /\ i.ok} :
        PluginStep("pause", inp, pause(S, now, inp), FALSE, play)

\* the play call of audio.py with its wait loop running for as long as it
\* will, while the host stops and pauses, the bridge reports and time goes on
NextWait ==
    \/ LoadTrack \/ PlayPreload \/ PlayTrackStart \/ PlayCommand
    \/ WaitCheck \/ WaitSleep \/ WaitPoll
    \/ BridgeEnd \/ BridgePlay
    \/ PluginStop \/ PausePlaying
    \/ Rebase

\* the clock has come to where it goes no further
Outlasted == now + 2 > MaxWaitTime /\ ~Followed(hooks, now)

\* the thread of the play call is scheduled again and again: the test of the
\* loop, its sleep and its poll each happen when they can, and time goes on
SpecWait ==
    /\ InitMedia
    /\ [][NextWait]_vars
    /\ WF_vars(WaitCheck)
    /\ WF_vars(WaitSleep)
    /\ WF_vars(WaitPoll)
    /\ WF_vars(Rebase)

\* -------------------------------------------------------------------- claims
TrackEndCalls == SelectSeq(cb, LAMBDA c : c.cb = "track_end")

C1_Scenario ==
    /\ Len(events) = 3
    /\ events[1].name = "start"
    /\ events[2].name = "play"
    /\ events[3].name = "end_of_track"

C1_Outbound ==
    bus = <<MediaState(2), PlayerState(1), MediaState(6),
            PlayerState(2), MediaState(7)>>

\* C1 (as amended): from a fresh bridge the events start, play, end_of_track
\* yield exactly media 2; player 1, media 6; player 2, media 7, and the
\* track-end callback runs exactly once, with the current URI, which is the
\* URI set by the play event.
C1_EventSequence ==
    C1_Scenario =>
        /\ C1_Outbound
        /\ Len(TrackEndCalls) = 1
        /\ TrackEndCalls[1].uri = TrackUri(events[2].track_id)

C1_Witness ==
    /\ C1_Scenario
    /\ Len(bus) = 5
    /\ Len(TrackEndCalls) = 1

\* C1 (as stated): the track-end callback gets the URI set by the start event.
C1_EndUriFromStart ==
    C1_Scenario =>
        /\ C1_Outbound
        /\ Len(TrackEndCalls) = 1
        /\ TrackEndCalls[1].uri = TrackUri(events[1].track_id)

\* C2: with a known length L, position P and sync timestamp T, a position
\* query at time t >= T returns min(P + (t - T) * 1000, L), never more than L.
C2_PositionFormula ==
    (/\ last.op = "get_track_position"
     /\ last.pre.track_len # 0
     /\ last.pre.last_sync_ts # 0)
    => /\ last.t >= last.pre.last_sync_ts
       /\ last.ret = Min(last.pre.track_pos
                         + (last.t - last.pre.last_sync_ts) * 1000,
                         last.pre.track_len)
       /\ last.ret <= last.pre.track_len

C2_Witness ==
    /\ last.op = "get_track_position"
    /\ last.pre.track_len = 2000
    /\ last.pre.track_pos = 1000
    /\ last.pre.last_sync_ts # 0
    /\ last.t = last.pre.last_sync_ts + 2
    /\ last.ret = 2000

TransportOps == {"pause", "resume", "next", "previous", "volume"}

\* the playback calls among the Web API calls of the last handler
PlaybackCalls == SelectSeq(last.api, LAMBDA a : a.call # "devices")

C3_Case ==
    /\ last.op \in TransportOps
    /\ last.dev_id # None
    /\ last.resolve_exc = "none"

\* C3: device resolution returns the identifier itself if any device has that
\* id; otherwise the id of the first device whose name equals it ignoring
\* case; otherwise the id of the first device whose type equals it ignoring
\* case.
C3_ResolutionPrecedence ==
    C3_Case =>
        LET devs == last.devs
            x == last.dev_id
            byId == \E i \in 1..Len(devs) : devs[i].id = x
            nameAt(i) == Lower(devs[i].name) = Lower(x)
            typeAt(i) == Lower(devs[i].type) = Lower(x)
            byName == \E i \in 1..Len(devs) : nameAt(i)
            byType == \E i \in 1..Len(devs) : typeAt(i)
        IN  /\ byId => last.resolved = x
            /\ (~byId /\ byName) =>
                   \E i \in 1..Len(devs) :
                       /\ nameAt(i)
                       /\ \A j \in 1..(i - 1) : ~nameAt(j)
                       /\ last.resolved = devs[i].id
            /\ (~byId /\ ~byName /\ byType) =>
                   \E i \in 1..Len(devs) :
                       /\ typeAt(i)
                       /\ \A j \in 1..(i - 1) : ~typeAt(j)
                       /\ last.resolved = devs[i].id

\* "speaker" is the type of the first device and the name of the second: the
\* name match is taken
C3_Witness ==
    /\ C3_Case
    /\ last.dev_id = "speaker"
    /\ Len(last.devs) = 2
    /\ last.devs[1].type = "Speaker"
    /\ last.devs[2].name = "speaker"
    /\ last.resolved = last.devs[2].id

C4_Unresolvable ==
    LET devs == last.devs
        x == last.dev_id
    IN  IF x = None
        THEN client.gen = "newer" \/ default_device_id(devs) = None
        ELSE ~HasId(devs, x) /\ ~HasName(devs, x) /\ ~HasType(devs, x)

\* C4: when device resolution cannot produce the id of a known device, the
\* transport operation fails with NoDevicesFound and issues no playback call.
C4_NoDevicesFound ==
    (/\ last.op \in TransportOps
     /\ last.connected
     /\ last.resolve_exc # "HTTPError"
     /\ C4_Unresolvable)
    => /\ last.exc = "NoSpotifyDevicesError"
       /\ PlaybackCalls = <<>>

\* C5: a read of the device list within 60 seconds of the last fetch makes no
\* API call, whatever list was fetched; the first read after more than 60
\* seconds makes exactly one.
C5_DeviceCacheTTL ==
    (/\ last.op = "devices"
     /\ last.connected
     /\ last.pre.devices_fetched # 0)
    => IF last.t - last.pre.devices_fetched <= DevicesTTL
       THEN last.api = <<>>
       ELSE last.api = <<GetDevices>>

\* C6: a read of the playlists within 300 seconds of the last fetch makes no
\* API call, for any number of playlists fetched; the first read after more
\* than 300 seconds makes exactly one; the cache is keyed by lowercased name.
C6_PlaylistCacheTTL ==
    (/\ last.op = "playlists"
     /\ last.connected
     /\ last.pre.playlists_fetched # 0)
    => /\ IF last.t - last.pre.playlists_fetched <= PlaylistsTTL
          THEN last.api = <<>>
          ELSE last.api = <<CurrentUserPlaylists>>
       /\ last.exc = "none" =>
              \A k \in DOMAIN last.ret : Lower(last.ret[k].name) = k

\* the set-volume requests of the last handler
SetVolumeRequests == SelectSeq(last.api, LAMBDA a : a.call = "volume")

\* the id the account gives the plugin's target device ("a" for the device
\* named Kitchen); the legacy plugin names no device
IsTargetId(id) ==
    plugin.device_name # None => id \in {"a", plugin.device_name}

\* C7: in either plugin generation, once the client is connected, lower_volume
\* issues exactly one set-volume request of floor(D/3) and restore_volume
\* exactly one of D (D the client's default volume, 100 legacy, 90 newer) for
\* the target device when that device is playing, and neither issues a
\* set-volume request when it is not playing.
C7_VolumeRequests ==
    (last.op \in {"lower_volume", "restore_volume"} /\ client.spotify) =>
        /\ last.target_playing = "yes" =>
            /\ Len(SetVolumeRequests) = 1
            /\ SetVolumeRequests[1].arg =
                  IF last.op = "lower_volume"
                  THEN DEFAULT_VOLUME(client) \div 3
                  ELSE DEFAULT_VOLUME(client)
            /\ IsTargetId(SetVolumeRequests[1].device)
        /\ last.target_playing = "no" => Len(SetVolumeRequests) = 0

PlayOrder == <<"preload_uri", "on_track_start", "spotify.play">>

\* the statements of play() run in the order of the source
C8_InOrder ==
    /\ Len(play.steps) <= Len(PlayOrder)
    /\ play.steps = SubSeq(PlayOrder, 1, Len(play.steps))
    /\ play.pc = "preloaded" <=> play.steps = <<"preload_uri">>
    /\ play.pc = "started" =>
          play.steps[Len(play.steps)] = "on_track_start"
    /\ play.pc \in {"wait", "sleep"} =>
          play.steps[Len(play.steps)] = "spotify.play"

\* what each statement of play() does
C8_Steps ==
    /\ last.op = "play:preload_uri" =>
          hooks = [current_uri |-> plugin.now_playing, last_sync_ts |-> last.t,
                   track_len |-> 0, track_pos |-> 0]
    /\ last.op = "play:on_track_start" =>
          /\ plugin.last_sync_ts = last.t
          /\ last.host = IF Truthy(plugin.now_playing)
                         THEN <<plugin.now_playing>> ELSE <<>>
    /\ (last.op = "play:spotify.play" /\ last.exc = "none") =>
          /\ play.pc = "wait"
          /\ Len(last.api) = 1
          /\ last.api[1].call = "start_playback"
          /\ last.api[1].arg = <<plugin.now_playing>>
          /\ last.api[1].device =
                IF NoDeviceList(client) THEN plugin.device_name
                ELSE resolve(client.device_list[1], plugin.device_name)
    /\ (last.op = "play:spotify.play" /\ last.exc # "none") =>
          /\ play.pc = "returned"
          /\ play.cause = "error"

\* C8 (as amended): play() of audio.py runs preload_uri (which resets the
\* tracked metadata and sets the current URI and the sync timestamp), then
\* the track-start transition, then the play command for the configured
\* device, then blocks; and play returns only after the bridge reported a
\* track end, or the target device was seen inactive, in which case the
\* plugin itself runs the track-end transition, or stop forced the track
\* end, or the play command or a device-list read raised and the track-error
\* path ran.
C8_PlayOrderAndReturn ==
    /\ C8_InOrder
    /\ C8_Steps
    /\ play.pc = "returned" =>
          play.cause \in {"bridge_end", "inactive", "stop", "error"}
    /\ (last.op = "play:poll" /\ play.pc = "returned"
            /\ play.cause = "inactive") =>
          /\ last.track_end
          /\ last.host = <<None>>
          /\ plugin.last_sync_ts = 0

\* audio.py ran all of play() and left its wait loop on seeing the target
\* device inactive
C8_Witness ==
    /\ plugin.gen = "audio"
    /\ last.op = "play:poll"
    /\ play.pc = "returned"
    /\ play.cause = "inactive"
    /\ play.steps = PlayOrder
    /\ last.track_end

\* C8 (as written): play returns without error only after the bridge
\* reported a track end or error, or the target device was seen inactive.
C8_ReturnOnlyOnEndOrInactive ==
    (play.pc = "returned" /\ play.cause # "error") =>
        play.cause \in {"bridge_end", "inactive"}

PauseRequests == SelectSeq(last.api, LAMBDA a : a.call = "pause_playback")

\* stop when it runs: the pause call, then the track-end transition
C9_Ran ==
    /\ last.exc = "none" =>
          /\ Len(last.api) = 1
          /\ Len(PauseRequests) = 1
          /\ last.track_end
          /\ last.host = <<None>>
          /\ ~plugin.paused
          /\ plugin.last_sync_ts = 0
    /\ last.exc # "none" =>
          /\ ~last.track_end
          /\ last.host = <<>>
          /\ plugin.paused = last.pre_paused

\* C9 (as amended): in audio.py stop does nothing when the plugin-paused flag
\* is set, and otherwise issues a pause call and, when that call returns,
\* forces the track-end transition; in the OCP plugin stop does so whether
\* or not the flag is set.
C9_StopGuard ==
    last.op = "stop" =>
        /\ plugin.gen = "audio" =>
              IF last.pre_paused
              THEN last.calls = 0 /\ ~last.track_end /\ last.unchanged
              ELSE C9_Ran
        /\ plugin.gen = "ocp" => C9_Ran

\* the OCP plugin was stopped while its plugin-paused flag was set, and ran
\* the pause call and the track-end transition
C9_Witness ==
    /\ plugin.gen = "ocp"
    /\ last.op = "stop"
    /\ last.pre_paused
    /\ last.exc = "none"
    /\ last.track_end

\* C9 (as written): in the media backend plugin stop issues a pause call and
\* forces the track-end transition if and only if the plugin-paused flag is
\* not set, and with the flag set it issues no API call, fires no track end
\* and changes no state.
C9_StopIffNotPaused ==
    (last.op = "stop" /\ plugin.gen \in {"ocp", "audio"}) =>
        /\ last.pre_paused =>
              last.calls = 0 /\ ~last.track_end /\ last.unchanged
        /\ (Len(PauseRequests) = 1 /\ last.track_end) => ~last.pre_paused

ResumeRequests == SelectSeq(last.api, LAMBDA a : a.call = "start_playback")

\* C10: in each backend plugin, once the client is connected, pause issues a
\* pause call to the target device and sets the plugin-paused flag when that
\* device is playing, and does neither when it is not; resume issues a
\* resume call and clears the flag only when the flag is set, so that a
\* resume call is only ever sent after a pause of the plugin.
C10_PauseResume ==
    client.spotify =>
        /\ (last.op = "pause" /\ last.target_playing = "yes") =>
              /\ Len(PauseRequests) = 1
              /\ IsTargetId(PauseRequests[1].device)
              /\ plugin.paused
        /\ (last.op = "pause" /\ last.target_playing = "no") =>
              /\ Len(PauseRequests) = 0
              /\ plugin.paused = last.pre_paused
        /\ last.op = "resume" =>
              /\ Len(ResumeRequests) > 0 => last.pre_paused
              /\ ~last.pre_paused => last.unchanged
              /\ ~plugin.paused

\* an attempt that fails with an unauthorized (401) response, whichever
\* exception carries the status: the HTTPError of requests, or the
\* SpotifyException that SpotifyClient.play reads the status of
Response401(a) == a.kind \in {"HTTPError", "SpotifyException"} /\ a.status = 401

\* an HTTP failure that is not the unauthorized one
OtherHttpFailure(a) ==
    a.kind \in {"HTTPError", "SpotifyException"} /\ a.status # 401

\* C11 (as stated): a wrapped call whose first attempt fails with a 401
\* response forces one token refresh and is attempted exactly once more; one
\* that fails with another HTTP failure is neither refreshed nor retried and
\* its failure propagates unchanged; no wrapped call makes more than two
\* attempts.
C11_RefreshAndRetryOnce ==
    last.op = "wrapped" =>
        /\ last.tries <= 2
        /\ Response401(last.attempts[1]) =>
              last.refreshes = 1 /\ last.tries = 2
        /\ OtherHttpFailure(last.attempts[1]) =>
              /\ last.refreshes = 0
              /\ last.tries = 1
              /\ last.exc = Raise(last.attempts[1])

\* C11, what the wrapper does: only a first attempt that ends with an
\* HTTPError of status 401 is followed by the forced refresh; the call is
\* attempted a second and last time when that refresh yields a token, and ends
\* with the failure of the refresh, unretried, when it does not. Every other
\* failure of the first attempt, a SpotifyException of status 401 included,
\* leaves the wrapper with no refresh and no retry.
C11_RetryWhenRefreshed ==
    last.op = "wrapped" =>
        /\ last.tries <= 2
        /\ Unauthorized(last.attempts[1]) =>
              /\ last.refreshes = 1
              /\ IF get_token(last.answers).exc = NoExc
                 THEN /\ last.tries = 2
                      /\ last.exc = Raise(last.attempts[2])
                 ELSE /\ last.tries = 1
                      /\ last.exc = get_token(last.answers).exc
        /\ ~Unauthorized(last.attempts[1]) =>
              /\ last.refreshes = 0
              /\ last.calls = 0
              /\ last.tries = 1
              /\ last.exc = Raise(last.attempts[1])

\* a 401 response that reaches the wrapper as a SpotifyException: neither
\* refresh nor retry
C11_WitnessSpotifyException ==
    /\ last.op = "wrapped"
    /\ last.attempts = <<Outcome("SpotifyException", 401)>>
    /\ last.refreshes = 0
    /\ last.tries = 1
    /\ last.exc = Exc("SpotifyException", 401)

\* a 401 response whose forced refresh yields a new token and whose retry
\* succeeds
C11_Witness ==
    /\ last.op = "wrapped"
    /\ Unauthorized(last.attempts[1])
    /\ last.refreshes = 1
    /\ last.tries = 2
    /\ last.exc = NoExc
    /\ client.credentials.access_token # last.pre.access_token

\* C12 (as stated): a play call whose retry after the forced refresh fails
\* as unauthorized again ends with NotAuthorized.
C12_NotAuthorizedAfterRetry ==
    (/\ last.op = "play"
     /\ Len(last.attempts) = 2
     /\ last.tries = 2
     /\ last.attempts[2].status = 401)
    => last.exc = NotAuthorized

\* C13 (as stated): a token fetch whose first broker call fails with 404 or
\* 401 fails with NotAuthorized after that one call; one whose first call
\* fails any other way calls the broker exactly once more; every fetch that
\* ends without a token fails with NotAuthorized; the broker is called at
\* most twice.
C13_FetchOutcomes ==
    last.op = "get_token" =>
        /\ last.calls <= 2
        /\ (/\ last.answers[1].kind = "HTTPError"
            /\ last.answers[1].status \in {404, 401})
           => last.exc = NotAuthorized /\ last.calls = 1
        /\ (/\ last.answers[1].kind \in {"HTTPError", "ConnectionError"}
            /\ last.answers[1].status \notin {404, 401})
           => last.calls = 2
        /\ last.exc # NoExc => last.exc = NotAuthorized

\* the test of get_access_token on the credentials the last call found
C14_Needed ==
    \/ last.pre.access_token = None
    \/ last.t > last.pre.expiration_time[1]
    \/ last.force

\* C14: get_access_token calls the broker if and only if there is no cached
\* token, or the time is past the cached expiration, or force is set;
\* otherwise it returns the cached token and leaves the cache as it was; the
\* token a successful call returns is the cached token.
C14_FetchIffNeeded ==
    last.op = "get_access_token" =>
        /\ last.calls > 0 <=> C14_Needed
        /\ ~C14_Needed =>
              /\ last.exc = NoExc
              /\ last.value = last.pre.access_token
              /\ client.credentials = last.pre
        /\ last.exc = NoExc => last.value = client.credentials.access_token

C14_Witness ==
    /\ last.op = "get_access_token"
    /\ ~last.force
    /\ last.pre.access_token # None
    /\ last.t > last.pre.expiration_time[1]
    /\ last.calls = 1
    /\ last.exc = NoExc
    /\ last.value # last.pre.access_token
    /\ last.value = client.credentials.access_token

\* C15 (as stated): a play or resume call whose request the Web API answers
\* with 403 returns normally; one that fails with a Spotify API error of any
\* other status ends with NotAuthorized; any other exception of the request
\* propagates unchanged.
C15_ForbiddenSwallowed ==
    (/\ last.op \in {"play", "resume"}
     /\ last.repeat = "None"
     /\ Len(last.attempts) = 1)
    => /\ last.attempts[1] = Outcome("SpotifyException", 403)
          => last.exc = NoExc
       /\ (/\ last.attempts[1].kind = "SpotifyException"
           /\ last.attempts[1].status # 403)
          => last.exc = NotAuthorized
       /\ last.attempts[1].kind \in {"HTTPError", "Exception"}
          => last.exc = Raise(last.attempts[1])

\* C16 (as stated): when the play command or the wait after it fails in
\* play of the media plugin, play returns, the sync timestamp and the
\* plugin-paused flag are reset, and the host gets the absent-track callback.
C16_ErrorPathNotifiesHost ==
    (/\ last.op \in {"play:spotify.play", "play:poll"}
     /\ last.exc # "none")
    => /\ play.pc = "returned"
       /\ plugin.last_sync_ts = 0
       /\ ~plugin.paused
       /\ \E i \in 1..Len(last.host) : last.host[i] = None

\* the track URIs a URI stands for in the catalog
C17_Tracks(uri) ==
    CASE uri = AlbumX -> <<TrackUri("t1"), TrackUri("t2")>>
      [] uri = ArtistA -> <<TrackUri("t2")>>
      [] uri = PlaylistP -> <<TrackUri("t1")>>
      [] OTHER -> <<uri>>

StartRequests == SelectSeq(last.api, LAMBDA a : a.call = "start_playback")

\* C17 (as stated): play of a list of URIs with no context URI sends one
\* start-playback request, with no context URI, whose uris are the input in
\* order with every playlist, artist and album URI replaced by its tracks.
C17_ExpandedInPlace ==
    last.op = "play_uris" =>
        /\ Len(StartRequests) = 1
        /\ StartRequests[1].arg =
              [uris |-> <<Concat([i \in 1..Len(last.uris) |->
                                     C17_Tracks(last.uris[i])])>>,
               context_uri |-> None]

\* the entries of the last configuration the loader is to take
C18_Qualifying ==
    {i \in 1..Len(last.backends) :
        /\ last.backends[i].type \in
              IF last.gen = "legacy" THEN {"spotify"}
              ELSE {"spotify", "ovos_spotify"}
        /\ last.backends[i].active \in {"absent", "True"}}

\* C18: a loader returns exactly one instance for every backend entry whose
\* type it accepts and whose active flag is absent or true, none for any
\* other entry, and logs its warning exactly when it returns no instance.
C18_LoaderFilter ==
    last.op = "load_service" =>
        /\ Len(last.instances) = Cardinality(C18_Qualifying)
        /\ \A i \in C18_Qualifying :
              Cardinality({k \in 1..Len(last.instances) :
                              last.instances[k].name = BackendNames[i]}) = 1
        /\ \A k \in 1..Len(last.instances) :
              \E i \in C18_Qualifying :
                  /\ last.instances[k].name = BackendNames[i]
                  /\ last.instances[k].config = last.backends[i]
        /\ last.warned <=> last.instances = <<>>
        /\ C18_Qualifying = {} => last.instances = <<>> /\ last.warned

C18_Witness ==
    /\ last.op = "load_service"
    /\ last.gen = "audio"
    /\ Len(last.backends) = 3
    /\ last.backends[1].type = "spotify"
    /\ last.backends[2].type = "ovos_spotify"
    /\ last.backends[3].type = "http"
    /\ \A i \in 1..3 : last.backends[i].active = "absent"
    /\ Len(last.instances) = 2
    /\ ~last.warned

\* the bridge holds no track: no URI, no length, no position, no timestamp
C19_Reset ==
    /\ hooks.current_uri = None
    /\ hooks.track_len = 0
    /\ hooks.track_pos = 0
    /\ hooks.last_sync_ts = 0

\* a position query now or at any later time returns 0
C19_QueryZero ==
    \A t \in now..MaxTime : get_track_position(hooks, t).value = 0

\* C19 (as stated): after the bridge handled a stop or an end_of_track event,
\* or the error path of its plugin ran, the bridge holds no track and a
\* following position query returns 0.
C19_ResetOnStopEndError ==
    last.op \in {"stop", "end_of_track", "track_error"} =>
        C19_Reset /\ C19_QueryZero

\* C19 (amended): after a stop event or the error path the bridge holds no
\* track and position queries return 0; after an end_of_track event the
\* bridge holds no track only when it knew no URI before, and otherwise
\* keeps URI, length and timestamp with the position moved to the length.
C19_ResetOnStopAndError ==
    /\ last.op \in {"stop", "track_error"} => C19_Reset /\ C19_QueryZero
    /\ last.op = "end_of_track" =>
          IF Truthy(last.pre.current_uri)
          THEN hooks = [last.pre EXCEPT !.track_pos = last.pre.track_len]
          ELSE C19_Reset /\ C19_QueryZero

C19_Witness ==
    /\ last.op = "end_of_track"
    /\ Truthy(last.pre.current_uri)
    /\ last.pre.track_len = 2000
    /\ last.pre.track_pos = 0
    /\ hooks.current_uri = last.pre.current_uri
    /\ hooks.track_pos = 2000
    /\ get_track_position(hooks, now).value = 2000

\* C20: whatever spotifyd events come in, every outbound player.state event
\* carries 0, 1 or 2, every outbound media.state event carries 1, 2, 6 or 7,
\* and the load and preloading events send nothing.
C20_OutboundStates ==
    /\ \A i \in 1..Len(bus) :
          /\ bus[i].type = "ovos.common_play.player.state"
                => bus[i].state \in {0, 1, 2}
          /\ bus[i].type = "ovos.common_play.media.state"
                => bus[i].state \in {1, 2, 6, 7}
    /\ last.op \in {"load", "preloading"} => last.bus = <<>>

C20_Witness ==
    /\ Ocp
    /\ Len(events) = 3
    /\ events[1].name = "play"
    /\ events[2].name = "end_of_track"
    /\ events[3].name = "load"
    /\ Len(bus) = 4
    /\ bus[4].state = 7
    /\ last.op = "load"
    /\ last.bus = <<>>

\* C21: a read of the device list made while the broker supplies no token
\* returns the empty list, raises nothing and leaves the device cache as it was
C21_DevicesNeverFail ==
    (/\ last.op = "client_devices"
     /\ ~last.pre.spotify
     /\ get_token(last.answers).exc # NoExc)
        => /\ last.exc = NoExc
           /\ last.ret = <<>>
           /\ client.device_list = last.pre.device_list
           /\ client.devices_fetched = last.pre.devices_fetched

\* C22: supported_uris returns ['spotify'] exactly when the configured
\* identifier is the name of a device of the device list it read, and otherwise
\* returns the empty list and logs a warning
C22_SupportedUris ==
    (last.op = "supported_uris" /\ last.exc = "none")
        => /\ last.ret = <<"spotify">>
                <=> \E i \in 1..Len(last.devs) : last.devs[i].name = last.name
           /\ last.ret # <<"spotify">> => last.ret = <<>> /\ last.warned
           /\ last.ret = <<"spotify">> => ~last.warned

\* a device named like the configured identifier but for its case is no match
C22_Witness ==
    /\ last.op = "supported_uris"
    /\ last.exc = "none"
    /\ \E i \in 1..Len(last.devs) : last.devs[i].name = "kitchen"
    /\ last.ret = <<>>
    /\ last.warned

\* the answer follows the cached list
C22_WitnessFound ==
    /\ last.op = "supported_uris"
    /\ last.cached
    /\ last.ret = <<"spotify">>

\* the device asked about is in the account's answer and reports itself active
C23_DeviceActive ==
    /\ last.resp.ok
    /\ \E i \in 1..Len(last.resp.devices) :
        /\ last.resp.devices[i].id = last.device
        /\ last.resp.devices[i].is_active

\* C23 (as stated): is_playing raises nothing, whatever fails; it answers
\* not-playing when the status request fails or, a device given, the
\* device-list request fails; with no device it answers the global flag; with
\* a device it answers true exactly when something plays and that device
\* reports itself active
C23_IsPlayingNeverFails ==
    last.op = "is_playing"
        => /\ last.exc = "none"
           /\ last.connected =>
                /\ last.status = "fail" => last.ret = FALSE
                /\ (last.status # "fail" /\ last.device = None)
                      => last.ret = (last.status = "playing")
                /\ (/\ last.status = "playing"
                    /\ last.device # None
                    /\ ~last.resp.ok)
                      => last.ret = FALSE
                /\ last.device # None
                      => last.ret = (last.status = "playing" /\ C23_DeviceActive)

\* C23, the part that the code keeps: on a client that is connected, or that
\* a broker within reach connects, is_playing raises nothing and answers as
\* stated
C23_Connected ==
    (last.op = "is_playing" /\ last.connected)
        => /\ last.exc = "none"
           /\ last.status = "fail" => last.ret = FALSE
           /\ (last.status # "fail" /\ last.device = None)
                => last.ret = (last.status = "playing")
           /\ (last.status = "playing" /\ last.device # None /\ ~last.resp.ok)
                => last.ret = FALSE
           /\ last.device # None
                => last.ret = (last.status = "playing" /\ C23_DeviceActive)

\* is_playing raises only out of the property spotify, before any request
C23_RaisesOnlyConnecting ==
    (last.op = "is_playing" /\ last.exc # "none")
        => /\ ~last.was_connected
           /\ last.creds = last.exc
           /\ last.api = <<>>

\* something plays, the device asked about is listed but another one is active
C23_Witness ==
    /\ last.op = "is_playing"
    /\ last.connected
    /\ last.status = "playing"
    /\ last.device = "a"
    /\ last.resp.ok
    /\ \E i \in 1..Len(last.resp.devices) : last.resp.devices[i].id = "a"
    /\ \E i \in 1..Len(last.resp.devices) : last.resp.devices[i].is_active
    /\ last.ret = FALSE

\* the device-list request fails after a status that says playing
C23_WitnessFailure ==
    /\ last.op = "is_playing"
    /\ last.connected
    /\ last.status = "playing"
    /\ last.device = "b"
    /\ ~last.resp.ok
    /\ last.ret = FALSE
    /\ last.exc = "none"

C24_Transport ==
    /\ last.op \in {"pause_playback", "start_playback", "next_track",
                    "previous_track"}
    /\ last.dev_id = None
    /\ last.connected
    /\ last.resolve_exc \in {"none", "NoSpotifyDevicesError"}

\* C24 as stated: a legacy transport operation called without a device picks
\* the device of get_default_device (an active device when something plays,
\* else the first ovos device, else the first Speaker, else a fuzzy match of
\* confidence above 0.5, else none), whatever plays and whatever the match is
C24_DefaultPolicy ==
    C24_Transport
        => \E playing \in BOOLEAN, fuzzy \in FuzzyMatches(last.devs) :
              last.resolved =
                  get_default_device(last.devs, TRUE, playing, fuzzy)

\* C24: a legacy transport operation called without a device picks the first
\* active device, else the first device whose name contains "ovos", else the
\* first device of the list; with an empty list it picks none and fails with
\* NoSpotifyDevicesError
C24_DefaultDeviceId ==
    C24_Transport
        => /\ last.resolved =
                IF \E i \in 1..Len(last.devs) : last.devs[i].is_active
                THEN FirstDevice(last.devs, LAMBDA d : d.is_active)
                ELSE IF \E i \in 1..Len(last.devs) :
                            ContainsOvos(last.devs[i].name)
                THEN FirstDevice(last.devs, LAMBDA d : ContainsOvos(d.name))
                ELSE IF Len(last.devs) > 0 THEN last.devs[1].id
                ELSE None
           /\ last.resolve_exc = "NoSpotifyDevicesError" <=> Len(last.devs) = 0
           /\ last.resolve_exc = "none"
                => \/ last.api = <<>>
                   \/ last.api[Len(last.api)].device = last.resolved

\* an ovos device listed before an active one: the active one is picked
C24_Witness ==
    /\ C24_Transport
    /\ Len(last.devs) = 2
    /\ ContainsOvos(last.devs[1].name)
    /\ last.devs[2].is_active
    /\ last.resolved = last.devs[2].id
    /\ Len(last.api) > 0
    /\ last.api[Len(last.api)].device = last.devs[2].id

\* no active and no ovos device, a Speaker second: the first device is picked
C24_WitnessFirst ==
    /\ C24_Transport
    /\ Len(last.devs) = 2
    /\ \A i \in 1..2 : ~last.devs[i].is_active
    /\ last.devs[2].type = "Speaker"
    /\ last.devs[1].type # "Speaker"
    /\ last.resolved = last.devs[1].id

\* the confidence of a stage of the last query, <<>> when the stage raises
StageConf(i) ==
    IF "conf" \in DOMAIN last.stages[i] THEN last.stages[i].conf ELSE <<>>
\* the stages of the last query that answer directly, and its candidates
DirectStages ==
    {i \in 1..5 : Exceeds(StageConf(i), DIRECT_RESPONSE_CONFIDENCE)}
CandidateStages ==
    {i \in 1..5 : Exceeds(StageConf(i), MATCH_CONFIDENCE)}
\* the last call was a query of a connected client whose account answered
Answered ==
    /\ last.op = "generic_query"
    /\ client.spotify
    /\ last.exc.type # "HTTPError"

\* C25 (as stated): generic_query of a connected client runs user playlists,
\* artist, track, album, public playlists in that order and, when the answers
\* to a phrase put a stage above 0.8, returns what the first such stage
\* returns, having issued the searches of the stages up to that one only; a
\* query that returns with no stage above 0.8 has issued the searches of all
\* stages.
C25_FirstDirectStage ==
    Answered
        => /\ DirectStages # {}
                => \E d \in DirectStages :
                    /\ \A j \in DirectStages : d <= j
                    /\ last.exc = NoExc
                    /\ last.ret = last.stages[d]
                    /\ last.searches =
                          SubSeq(<<"artist", "track", "album", "playlist">>,
                                 1, d - 1)
           /\ (DirectStages = {} /\ last.exc = NoExc)
                => last.searches = <<"artist", "track", "album", "playlist">>

\* C25, the part that the code keeps: a query that returns has returned what
\* the first stage above 0.8 returned, after the searches of the stages up to
\* that one only.
C25_Returning ==
    (Answered /\ last.exc = NoExc)
        => /\ DirectStages # {}
                => \E d \in DirectStages :
                    /\ \A j \in DirectStages : d <= j
                    /\ last.ret = last.stages[d]
                    /\ last.searches =
                          SubSeq(<<"artist", "track", "album", "playlist">>,
                                 1, d - 1)
           /\ DirectStages = {}
                => last.searches = <<"artist", "track", "album", "playlist">>

\* track and album both answer directly after an artist that is a candidate
C25_Witness ==
    /\ Answered
    /\ last.exc = NoExc
    /\ DirectStages = {3, 4}
    /\ 2 \in CandidateStages
    /\ last.ret = last.stages[3]
    /\ last.searches = <<"artist", "track">>

\* C26 (as stated): a stage at exactly 0.8 does not end the query and is a
\* candidate, a stage at 0.5 or less is no candidate; with no stage above 0.8
\* all stages run and the result is a candidate of the highest confidence, or
\* NOTHING_FOUND when there is no candidate.
C26_StrictThresholds ==
    (Answered /\ DirectStages = {})
        => /\ last.exc = NoExc
           /\ Len(last.searches) = 4
           /\ CandidateStages = {} => last.ret = NOTHING_FOUND
           /\ CandidateStages # {}
                => \E i \in CandidateStages :
                    /\ last.ret = last.stages[i]
                    /\ \A j \in CandidateStages :
                          StageConf(j)[1] <= StageConf(i)[1]
           /\ \A i \in 1..5 :
                StageConf(i) = <<DIRECT_RESPONSE_CONFIDENCE>>
                    => i \in CandidateStages
           /\ \A i \in 1..5 :
                (StageConf(i) # <<>> /\ StageConf(i)[1] <= MATCH_CONFIDENCE)
                    => i \notin CandidateStages /\ last.ret # last.stages[i]

\* C26, the part that the code keeps: a query that returns with no stage above
\* 0.8 has run every stage and returns a candidate of the highest confidence,
\* or NOTHING_FOUND when there is none; 0.8 itself is a candidate only, 0.5 is
\* none.
C26_Returning ==
    (Answered /\ last.exc = NoExc /\ DirectStages = {})
        => /\ Len(last.searches) = 4
           /\ CandidateStages = {} => last.ret = NOTHING_FOUND
           /\ CandidateStages # {}
                => \E i \in CandidateStages :
                    /\ last.ret = last.stages[i]
                    /\ \A j \in CandidateStages :
                          StageConf(j)[1] <= StageConf(i)[1]
           /\ \A i \in 1..5 :
                StageConf(i) = <<DIRECT_RESPONSE_CONFIDENCE>>
                    => i \in CandidateStages
           /\ \A i \in 1..5 :
                (StageConf(i) # <<>> /\ StageConf(i)[1] <= MATCH_CONFIDENCE)
                    => i \notin CandidateStages /\ last.ret # last.stages[i]

\* the track at exactly 0.8 and the album at exactly 0.5: every stage runs
\* and the track is returned
C26_Witness ==
    /\ Answered
    /\ last.exc = NoExc
    /\ StageConf(3) = <<DIRECT_RESPONSE_CONFIDENCE>>
    /\ StageConf(4) = <<MATCH_CONFIDENCE>>
    /\ CandidateStages = {3}
    /\ Len(last.searches) = 4
    /\ last.ret = last.stages[3]

\* the entries of a section of the configuration
C27_Entries(section) == IF section = <<>> THEN {} ELSE section[1]

\* C27: with devices found (and a number typed when the tool asks), the stored
\* configuration holds one media entry for every device and one legacy Audio
\* entry among those of the devices, that of the default device: the only
\* device, unasked, or the device of the index typed; with no device nothing
\* is stored and the exit status is 1
C27_Autoconfigure ==
    last.op = "autoconfigure"
        => /\ Len(last.names) = 0
                => ~last.stored /\ last.status = 1 /\ last.cfg = last.before
           /\ (Len(last.names) = 1 \/ (Len(last.names) > 1 /\ last.input # <<>>))
                => /\ last.stored
                   /\ last.status = 0
                   /\ last.prompted = (Len(last.names) > 1)
                   /\ \A i \in 1..Len(last.names) :
                        MediaEntry(last.names[i]) \in C27_Entries(last.cfg.media)
                   /\ \E i \in 1..Len(last.names) :
                        /\ i = 1 + (IF Len(last.names) = 1 THEN 0
                                    ELSE last.input[1])
                        /\ AudioEntry(last.names[i])
                              \in C27_Entries(last.cfg.Audio)
                        /\ \A e \in C27_Entries(last.cfg.Audio)
                                      \ C27_Entries(last.before.Audio) :
                              e = AudioEntry(last.names[i])


\* the queue as the lists enqueued since the last clear_list make it
Enqueued == [i \in 1..Len(last.enqueued) |-> Plain(last.enqueued[i])]

\* C28 (as stated): after clear_list, add_list or play of the legacy plugin
\* the queue is the concatenation, in order, of the lists enqueued since the
\* last clear_list, and a play that succeeds has sent one start-playback
\* request that carries that queue, in that order, to the resolved device.
C28_Queue ==
    last.op \in {"clear_list", "add_list", "play"} =>
        /\ plugin.tracks = Enqueued
        /\ last.op = "play" /\ last.exc = NoExc =>
            StartRequests
                = <<StartPlayback(last.dev_id, <<last.enqueued>>, None)>>

\* C28, the part that the code keeps: clear_list and add_list leave the
\* concatenation of the enqueued lists when the queue held it before them, and
\* a play of a queue of track URIs sends it whole, in order, and leaves it.
C28_TrackQueue ==
    /\ last.op \in {"clear_list", "add_list"}
           /\ (last.op = "add_list" =>
                 \E n \in 0..Len(last.enqueued) :
                     last.before = SubSeq(Enqueued, 1, n))
        => plugin.tracks = Enqueued
    /\ last.op = "play" /\ last.before = Enqueued /\ last.exc = NoExc
           /\ (\A i \in 1..Len(last.enqueued) :
                  startswith(last.enqueued[i], "track"))
        => /\ plugin.tracks = Enqueued
           /\ StartRequests
                = <<StartPlayback(last.dev_id, <<last.enqueued>>, None)>>


\* the position a pause event carries, clamped to the length it carries; a
\* length of zero is an unknown length and clamps nothing
PausedAt(window) ==
    IF window.duration = 0 THEN window.position
    ELSE Min(window.position, window.duration)

\* the pause handler has emitted player state paused(2) and nothing else
PauseOutput ==
    last.op = "pause" =>
        last.bus = <<PlayerState(2)>> /\ last.cb = <<>> /\ last.host = <<>>

\* C29 (as stated): after a pause event, until the next event that sets the
\* sync timestamp, every position query returns the position the pause event
\* carried, clamped to the length it carried, however much time has passed;
\* the pause handler emits player state paused(2) only.
C29_PauseFreezes ==
    /\ PauseOutput
    /\ last.op = "get_track_position" /\ events # <<>> =>
        last.ret = PausedAt(events[1])

\* C29 (amended): the same until the next event that sets the sync timestamp
\* or the next end-of-track event, which moves the position to the length.
C29_PauseFreezesUntilEnd ==
    /\ PauseOutput
    /\ last.op = "get_track_position" /\ events # <<>> /\ ~events[1].ended =>
        last.ret = PausedAt(events[1])

\* a position query made after time has passed since a pause event that came
\* while the bridge was extrapolating
C29_Witness ==
    /\ last.op = "get_track_position"
    /\ events # <<>>
    /\ ~events[1].ended
    /\ last.t > events[1].at
    /\ events[1].position = 1000
    /\ last.ret = 1000

\* a position query after a pause event whose position lies past its length
C29_WitnessClamped ==
    /\ last.op = "get_track_position"
    /\ events # <<>>
    /\ ~events[1].ended
    /\ events[1].position > events[1].duration
    /\ events[1].duration > 0
    /\ last.ret = events[1].duration


\* C30: whatever events, preloads, resets and queries came before, a length
\* query and a position query made at the same time, in either order, report
\* a length that is not less than the position; a query that finds the length
\* unknown (zero) sets it to the position it computes.
C30_LengthCoversPosition ==
    /\ get_track_length(hooks, now).value
           >= get_track_position(hooks, now).value
    /\ get_track_length(get_track_position(hooks, now).hooks, now).value
           >= get_track_position(hooks, now).value
    /\ get_track_length(hooks, now).value
           >= get_track_position(get_track_length(hooks, now).hooks, now).value
    /\ last.op \in {"get_track_position", "get_track_length"} =>
        /\ last.t = now =>
            get_track_length(hooks, now).value
                >= get_track_position(hooks, now).value
        /\ last.pre.track_len = 0 =>
            hooks.track_len = ExtrapolatedPos(last.pre, last.t)
        /\ last.ret <= hooks.track_len

\* a position query that found the extrapolated position past a known length
C30_Witness ==
    /\ last.op = "get_track_position"
    /\ last.pre.track_len > 0
    /\ ExtrapolatedPos(last.pre, last.t) > last.pre.track_len
    /\ last.ret = last.pre.track_len

\* a length query that found the length unknown and set it to the position
C30_WitnessUnknown ==
    /\ last.op = "get_track_length"
    /\ last.pre.track_len = 0
    /\ last.pre.last_sync_ts # 0
    /\ hooks.track_len = 1000
    /\ last.ret = 1000


\* C31: best_result of a non-empty list returns a tuple of maximal confidence,
\* the earliest of the list among those of maximal confidence; of the empty
\* list it returns NOTHING_FOUND.
C31_BestResult ==
    last.op = "best_result" =>
        IF Len(last.results) = 0 THEN last.ret = NOTHING_FOUND
        ELSE \E i \in 1..Len(last.results) :
                /\ last.ret = last.results[i]
                /\ \A j \in 1..Len(last.results) :
                    last.results[j].conf[1] <= last.results[i].conf[1]
                /\ \A j \in 1..(i - 1) :
                    last.results[j].conf[1] < last.results[i].conf[1]

\* the list [(0.6, "x"), (0.9, "y"), (0.9, "z")], of which "y" is selected
C31_Witness ==
    /\ last.op = "best_result"
    /\ last.results = <<Found(Hundredths(60), "track", "x"),
                        Found(Hundredths(90), "track", "y"),
                        Found(Hundredths(90), "track", "z")>>
    /\ last.ret = Found(Hundredths(90), "track", "y")

\* the empty list
C31_WitnessEmpty ==
    /\ last.op = "best_result"
    /\ last.results = <<>>
    /\ last.ret = NOTHING_FOUND


\* the last call was a query_song whose search answered tracks
SongsFound ==
    last.op = "query_song" /\ last.exc = NoExc /\ Len(last.tracks) > 0
\* the top confidence of the tracks found, and the tracks within 0.1 of it:
\* those above the top confidence less 0.1, a difference of doubles
TopConfidence ==
    CHOOSE c \in {last.tracks[i].conf : i \in 1..Len(last.tracks)} :
        \A i \in 1..Len(last.tracks) : last.tracks[i].conf <= c
Shortlist ==
    {i \in 1..Len(last.tracks) :
        last.tracks[i].conf > fsub_tenth(TopConfidence)}
MostPopular ==
    {i \in Shortlist :
        \A j \in Shortlist : last.tracks[j].popularity <= last.tracks[i].popularity}

\* C32 (as stated): query_song returns a most popular track of those whose
\* confidence is within 0.1 of the top confidence, with the top confidence
\* plus the bonus as its confidence.
C32_TopConfidence ==
    SongsFound =>
        /\ \E i \in MostPopular : last.ret.data.item = last.tracks[i].id
        /\ last.ret.conf = <<fadd(TopConfidence, last.bonus)>>

\* C32 (amended): of the tracks its search answers, query_song returns a most
\* popular one of those whose confidence is above the top confidence less 0.1
\* (a difference of doubles), with that track's own confidence plus the bonus
\* as its confidence.
C32_ChosenConfidence ==
    SongsFound =>
        \E i \in MostPopular :
            /\ last.ret.data.item = last.tracks[i].id
            /\ last.ret.conf = <<fadd(last.tracks[i].conf, last.bonus)>>

\* the most popular track of the shortlist is not the one of top confidence,
\* a track further than 0.1 below the top is left out, and a bonus was given
C32_Witness ==
    /\ SongsFound
    /\ last.tracks = <<Track("a", Hundredths(90), 10),
                       Track("b", Hundredths(85), 90)>>
    /\ last.bonus = Hundredths(10)
    /\ last.ret = Found(Hundredths(95), "track", "b")

\* a more popular track 0.1 below the top confidence of 0.9 is not chosen
C32_WitnessShortlist ==
    /\ SongsFound
    /\ last.tracks = <<Track("a", Hundredths(80), 90),
                       Track("b", Hundredths(90), 10)>>
    /\ last.ret.data.item = "b"

\* a more popular track 0.1 below the top confidence of 0.3 is chosen: the
\* double 0.3 - 0.1 lies below 0.2
C32_WitnessRounded ==
    /\ SongsFound
    /\ last.tracks = <<Track("a", Hundredths(30), 10),
                       Track("b", Hundredths(20), 90)>>
    /\ last.bonus = 0
    /\ last.ret = Found(Hundredths(20), "track", "b")


\* the whole lists a caller may be handed: the list cached before the calls
\* and the answers given to the callers' requests
WholeLists == {CachedList} \cup {bus[i] : i \in 1..Len(bus)}

\* C33: with two callers inside the devices property of one client, under
\* every interleaving of their statements a caller that returns is handed one
\* of the whole lists (the cached one, or one answer of the Web API), the
\* cache holds nothing or one of the whole lists, and each caller has sent at
\* most one request.
C33_WholeLists ==
    /\ \A k \in 1..2 :
        events[k].pc = "returned" =>
            events[k].ret # <<>> /\ events[k].ret[1] \in WholeLists
    /\ client.device_list # <<>> => client.device_list[1] \in WholeLists
    /\ Len(bus) <= 2

\* both callers have refreshed, with different answers, and both have returned
C33_Witness ==
    /\ events[1].pc = "returned"
    /\ events[2].pc = "returned"
    /\ Len(bus) = 2
    /\ bus[1] # bus[2]
    /\ bus[1] # <<>>
    /\ bus[2] # <<>>

\* a caller is handed the answer given to the other caller's request
C33_WitnessOther ==
    /\ events[1].pc = "returned"
    /\ events[2].pc = "returned"
    /\ Len(bus) = 2
    /\ bus[1] # bus[2]
    /\ events[1].ret = events[2].ret


\* C34 (as stated): play of the legacy plugin leaves the queue as it found it,
\* also when the queue holds album, artist or playlist URIs.
C34_PlayKeepsQueue ==
    last.op = "play" => plugin.tracks = last.before


\* C35 (as stated): when the wait loop of play ends the track because it saw
\* the target device inactive, the device list it read was fetched after the
\* play command was sent.
C35_FetchedAfterPlay ==
    (/\ last.op = "play:poll"
     /\ play.pc = "returned"
     /\ play.cause = "inactive")
    => client.devices_fetched > play.issued


\* C36 (as stated): once the bridge has delivered an end_of_track event while
\* a play call is blocked in its wait loop, that play call returns at some
\* later time, whatever events follow. Stated of the behaviours in which
\* time goes on (the others end where the clock goes no further).
C36_EndReturns ==
    \/ <>[]Outlasted
    \/ (last.op = "end_of_track" /\ Blocked) ~> (play.pc = "returned")

\* C37 (as stated): once stop has been called while a play call is blocked in
\* its wait loop, that play call returns at some later time, whether or not
\* the plugin-paused flag was set. Stated of the behaviours in which time
\* goes on.
C37_StopReturns ==
    \/ <>[]Outlasted
    \/ (last.op = "stop" /\ Blocked) ~> (play.pc = "returned")


\* what holds of an end_of_track event delivered to a blocked play call: the
\* call returns unless the bridge hears a play event first (which sets the
\* sync timestamp again) or the host pauses or stops
C36_EndReturnsUnlessPlay ==
    \/ <>[]Outlasted
    \/ (last.op = "end_of_track" /\ Blocked)
           ~> (play.pc = "returned" \/ last.op \in {"play", "pause", "stop"})

\* what holds of stop called on a blocked play call: when the plugin-paused
\* flag is not set and the pause call succeeds, the call returns unless an
\* event or a pause comes first
C37_StopReturnsWhenRun ==
    \/ <>[]Outlasted
    \/ (last.op = "stop" /\ Blocked /\ ~last.pre_paused /\ last.exc = "none")
           ~> (play.pc = "returned"
                   \/ last.op \in {"play", "end_of_track", "pause"})


\* C38 (as stated): in audio.py and in the legacy plugin, a resume that
\* follows a stop that returned, with no pause in between, sends no resume
\* call.
C38_NoResumeAfterStop ==
    [][(/\ plugin.gen \in {"audio", "legacy"}
        /\ last.op = "stop"
        /\ last.exc = "none"
        /\ last'.op = "resume")
       => SelectSeq(last'.api, LAMBDA a : a.call = "start_playback") = <<>>]_vars


\* C39 (as stated): a pause of audio.py whose pause call fails leaves the
\* plugin-paused flag as it was.
C39_FlagOnlyOnSuccess ==
    (plugin.gen = "audio" /\ last.op = "pause" /\ last.exc # "none")
        => plugin.paused = last.pre_paused


\* C40 (as stated): in every state of the bridge and for all times t1 < t2
\* from now on with no event in between, the position returned at t2 is the
\* same whether or not a position query or a length query was made at t1.
C40_QueriesReadOnly ==
    \A t1 \in now..MaxTime, t2 \in now..(MaxTime + 1) :
        t1 < t2 =>
            /\ get_track_position(get_track_position(hooks, t1).hooks, t2).value
                   = get_track_position(hooks, t2).value
            /\ get_track_position(get_track_length(hooks, t1).hooks, t2).value
                   = get_track_position(hooks, t2).value

====
